---- MODULE Spec2Model ----
(***************************************************************************)
(* OrbitPay: the payroll_stream and vesting contracts as state machines.   *)
(*                                                                         *)
(* Every contract entry point is one action.  What a call returns is a     *)
(* function of the state it is made in (the *_result operators, which walk *)
(* the handler's checks in source order).  A call that returns Err, or     *)
(* that panics inside the host, commits nothing: the Soroban host rolls    *)
(* back the invocation's storage writes and token transfers, so such a     *)
(* call leaves every variable unchanged.                                   *)
(*                                                                         *)
(* Amounts are i128 and times u64 in the source; the bounds below keep     *)
(* every product far below 2^127, so no arithmetic here can overflow.      *)
(* Division is Rust's `/` on i128: it truncates toward zero (TruncDiv).    *)
(***************************************************************************)
EXTENDS Integers, Sequences, FiniteSets, TLC

\* ------------------------------------------------------------------ bounds
\* Ledger timestamps run over 0..MaxTime.
MaxTime == 3
\* Amounts passed to create_stream / create_schedule run over 0..MaxAmount.
MaxAmount == 3

\* Accounts that call the contracts, and the contract's own token account.
Addr == {"a1", "a2"}
ContractAddr == "contract"
\* The account initialize is called with.
Admins == {"admin"}
\* What every account holds of the streamed token before the first call.
InitBalance == MaxAmount + 1

Times == 0..MaxTime
Amounts == 0..MaxAmount
\* The ids the calls are made with.  A run creates the streams and schedules
\* with these ids and no more: two streams, which share the token ledger, and
\* one vesting schedule.
StreamIds == {0, 1}
ScheduleIds == {0}

\* The addresses the treasury is called with, and the id of its withdrawal.
SignerAddr == Addr \cup {"a3"}
ProposalIds == {0}

VARIABLES
    now,                \* env.ledger().timestamp()
    stream_admin,       \* payroll_stream DataKey::Admin ("none" before initialize)
    stream_count,       \* payroll_stream DataKey::StreamCount
    streams,            \* payroll_stream DataKey::Stream(id): id -> PayrollStream
    sender_streams,     \* payroll_stream DataKey::SenderStreams(addr)
    recipient_streams,  \* payroll_stream DataKey::RecipientStreams(addr)
    balance,            \* balances of the token the contracts stream and vest
    stream_out,         \* per stream: escrowed at creation, sent to recipient, sent to sender
    vesting_admin,      \* vesting DataKey::Admin ("none" before initialize)
    schedule_count,     \* vesting DataKey::ScheduleCount
    schedules,          \* vesting DataKey::Schedule(id): id -> VestingSchedule
    grantor_schedules,  \* vesting DataKey::GrantorSchedules(addr)
    beneficiary_schedules, \* vesting DataKey::BeneficiarySchedules(addr)
    claim_history,      \* vesting DataKey::ClaimHistory(id): id -> list of ClaimRecord
    vesting_out,        \* per schedule: total at creation, amounts returned by claim / revoke
    treasury_admin,     \* treasury DataKey::Admin ("none" before initialize)
    signers,            \* treasury DataKey::Signers: the list of signers
    threshold,          \* treasury DataKey::Threshold
    proposal_count,     \* treasury DataKey::ProposalCount
    withdrawals,        \* treasury DataKey::Withdrawal(id): id -> WithdrawalRequest
    treasury_balance,   \* the treasury contract's balance of the withdrawal token
    treasury_received,  \* per address: tokens received from executed withdrawals
    governance_admin,   \* governance DataKey::Admin ("none" before initialize)
    members,            \* governance DataKey::Members: the list of DAO members
    quorum_percentage,  \* governance DataKey::QuorumPercentage
    voting_duration,    \* governance DataKey::VotingDuration
    governance_count,   \* governance DataKey::ProposalCount
    proposals,          \* governance DataKey::Proposal(id): id -> Proposal
    last                \* the latest payroll_stream or vesting call that returned Ok
                        \* (reset when the clock advances)

stream_vars == <<stream_admin, stream_count, streams, sender_streams,
                 recipient_streams, balance, stream_out>>
vesting_vars == <<vesting_admin, schedule_count, schedules, grantor_schedules,
                  beneficiary_schedules, claim_history, vesting_out>>
treasury_vars == <<treasury_admin, signers, threshold, proposal_count, withdrawals,
                   treasury_balance, treasury_received>>
governance_vars == <<governance_admin, members, quorum_percentage, voting_duration,
                     governance_count, proposals>>
vars == <<now, stream_vars, vesting_vars, treasury_vars, governance_vars, last>>

\* ------------------------------------------------------------ arithmetic
\* Rust's i128 `/`: the quotient truncated toward zero (b > 0 at every use).
TruncDiv(a, b) == IF a >= 0 THEN a \div b ELSE -((-a) \div b)

\* ------------------------------------------------------------- outcomes
\* A call that returned Ok: the entry point, its caller and id, the value
\* returned, and the tokens the call sent to the recipient and to the sender.
Outcome(op, caller, id, amount, to_recipient, to_sender) ==
    [op |-> op, caller |-> caller, id |-> id, amount |-> amount,
     to_recipient |-> to_recipient, to_sender |-> to_sender]

NoCall == Outcome("none", "none", 0, 0, 0, 0)

\* ------------------------------------------------------ storage helpers
stream_has_admin == stream_admin # "none"
vesting_has_admin == vesting_admin # "none"

\* env.storage().persistent().get(&DataKey::Stream(id)) is Some
has_stream(id) == id \in DOMAIN streams
has_schedule(id) == id \in DOMAIN schedules

\* Mutant of set_record: the record is written under every key of the store.
set_record_everywhere(store, id, rec) ==
    [i \in (DOMAIN store) \cup {id} |-> rec]

\* set_stream / set_schedule: a full-record replace under the id's key.
set_record(store, id, rec) ==
    [i \in (DOMAIN store) \cup {id} |-> IF i = id THEN rec ELSE store[i]]

\* Mutant of add_index: the id is put at the front of the list.
add_index_front(index, account, id) ==
    [index EXCEPT ![account] = <<id>> \o @]

\* add_sender_stream and its three siblings: push_back on the account's list.
add_index(index, account, id) ==
    [index EXCEPT ![account] = Append(@, id)]

\* token::Client::transfer(from, to, amount)
transfer(bal, from, to, amount) ==
    [bal EXCEPT ![from] = @ - amount, ![to] = @ + amount]

\* ======================================================== payroll_stream
\* Mutant of new_stream: the record carries the id after its own.
new_stream_next_id(stream_id, sender, recipient, total_amount, start_time, end_time) ==
    [id |-> stream_id + 1,
     sender |-> sender,
     recipient |-> recipient,
     total_amount |-> total_amount,
     claimed_amount |-> 0,
     start_time |-> start_time,
     end_time |-> end_time,
     last_claim_time |-> start_time,
     status |-> "Active",
     rate_per_second |-> TruncDiv(total_amount, end_time - start_time)]

\* The PayrollStream built by create_stream (the token field is left out:
\* one token is modelled).  No entry point assigns StreamStatus::Paused.
new_stream(stream_id, sender, recipient, total_amount, start_time, end_time) ==
    [id |-> stream_id,
     sender |-> sender,
     recipient |-> recipient,
     total_amount |-> total_amount,
     claimed_amount |-> 0,
     start_time |-> start_time,
     end_time |-> end_time,
     last_claim_time |-> start_time,
     status |-> "Active",
     rate_per_second |-> TruncDiv(total_amount, end_time - start_time)]

\* Mutant of calculate_claimable: the claimed amount is not subtracted.
calculate_claimable_gross(t, stream) ==
    IF t <= stream.start_time THEN 0
    ELSE LET effective_time == IF t >= stream.end_time THEN stream.end_time ELSE t
             elapsed == effective_time - stream.start_time
             duration == stream.end_time - stream.start_time
             computed == TruncDiv(stream.total_amount * elapsed, duration)
         IN  IF computed > stream.total_amount THEN stream.total_amount ELSE computed

\* Mutant of calculate_claimable: accrual from the stored rate_per_second.
calculate_claimable_by_rate(t, stream) ==
    IF t <= stream.start_time THEN 0
    ELSE LET effective_time == IF t >= stream.end_time THEN stream.end_time ELSE t
             elapsed == effective_time - stream.start_time
             computed == stream.rate_per_second * elapsed
             total_accrued == IF computed > stream.total_amount
                                 THEN stream.total_amount
                                 ELSE computed
         IN  IF total_accrued < stream.claimed_amount THEN 0
             ELSE total_accrued - stream.claimed_amount

\* Mutant of calculate_claimable: the rate times the time since the last claim.
calculate_claimable_since_last(t, stream) ==
    IF t <= stream.start_time THEN 0
    ELSE LET effective_time == IF t >= stream.end_time THEN stream.end_time ELSE t
         IN  IF effective_time <= stream.last_claim_time THEN 0
             ELSE stream.rate_per_second * (effective_time - stream.last_claim_time)

\* calculate_claimable, with env.ledger().timestamp() passed as `t`.
calculate_claimable(t, stream) ==
    IF t <= stream.start_time THEN 0
    ELSE LET effective_time == IF t >= stream.end_time THEN stream.end_time ELSE t
             elapsed == effective_time - stream.start_time
         IN  IF stream.end_time <= stream.start_time THEN 0
             ELSE LET duration == stream.end_time - stream.start_time
                      computed == TruncDiv(stream.total_amount * elapsed, duration)
                      total_accrued == IF computed > stream.total_amount
                                          THEN stream.total_amount
                                          ELSE computed
                  IN  IF total_accrued < stream.claimed_amount THEN 0
                      ELSE total_accrued - stream.claimed_amount

\* get_claimable(stream_id) at the current ledger time (for a stored id).
get_claimable(stream_id) == calculate_claimable(now, streams[stream_id])

\* An initialize that can be repeated.
stream_initialize_result_again(admin) == "Ok"

\* What initialize(admin) returns.
stream_initialize_result(admin) ==
    IF stream_has_admin THEN "AlreadyInitialized" ELSE "Ok"

\* initialize(admin)
stream_initialize(admin) ==
    IF stream_initialize_result(admin) # "Ok"
    THEN UNCHANGED vars
    ELSE /\ stream_admin' = admin
         /\ stream_count' = 0
         /\ last' = Outcome("stream_initialize", admin, 0, 0, 0, 0)
         /\ UNCHANGED <<now, streams, sender_streams, recipient_streams, balance,
                        stream_out, vesting_vars, treasury_vars, governance_vars>>

\* Mutant of create_stream_result: a start_time in the past is accepted.
create_stream_result_past_start(sender, recipient, total_amount, start_time, end_time) ==
    IF ~stream_has_admin THEN "NotInitialized"
    ELSE IF sender = recipient THEN "InvalidRecipient"
    ELSE IF total_amount <= 0 THEN "InvalidAmount"
    ELSE IF end_time <= start_time THEN "InvalidDuration"
    ELSE IF balance[sender] < total_amount THEN "TransferFailed"
    ELSE "Ok"

\* What create_stream returns: the checks in source order, then the token
\* transfer into escrow, which panics when the sender's balance is short.
create_stream_result(sender, recipient, total_amount, start_time, end_time) ==
    IF ~stream_has_admin THEN "NotInitialized"
    ELSE IF sender = recipient THEN "InvalidRecipient"
    ELSE IF total_amount <= 0 THEN "InvalidAmount"
    ELSE IF end_time <= start_time THEN "InvalidDuration"
    ELSE IF start_time < now THEN "InvalidStartTime"
    ELSE IF balance[sender] < total_amount THEN "TransferFailed"
    ELSE "Ok"

\* create_stream(sender, recipient, token, total_amount, start_time, end_time)
create_stream(sender, recipient, total_amount, start_time, end_time) ==
    LET stream_id == stream_count
    IN  IF create_stream_result(sender, recipient, total_amount, start_time, end_time) # "Ok"
        THEN UNCHANGED vars
        ELSE /\ balance' = transfer(balance, sender, ContractAddr, total_amount)
             /\ streams' = set_record(streams, stream_id,
                    new_stream(stream_id, sender, recipient, total_amount,
                               start_time, end_time))
             /\ stream_count' = stream_id + 1
             /\ sender_streams' = add_index(sender_streams, sender, stream_id)
             /\ recipient_streams' = add_index(recipient_streams, recipient, stream_id)
             /\ stream_out' = set_record(stream_out, stream_id,
                    [escrowed |-> total_amount, to_recipient |-> 0, to_sender |-> 0])
             /\ last' = Outcome("create_stream", sender, stream_id, stream_id, 0, 0)
             /\ UNCHANGED <<now, stream_admin, vesting_vars, treasury_vars, governance_vars>>

\* Mutant of batch_walk: only the first entry looked at is validated.
batch_walk_first_entry(sender, entries, i, sender_balance) ==
    IF i > Len(entries) THEN "Ok"
    ELSE LET params == entries[i]
         IN  IF sender = params.recipient THEN "InvalidRecipient"
             ELSE IF params.total_amount <= 0 THEN "InvalidAmount"
             ELSE IF params.end_time <= params.start_time THEN "InvalidDuration"
             ELSE IF params.start_time < now THEN "InvalidStartTime"
             ELSE IF sender_balance < params.total_amount THEN "TransferFailed"
             ELSE "Ok"

\* create_batch_streams: the loop over the entries, from entry i on, with the
\* sender's balance as the earlier entries' transfers left it.  The first
\* entry that fails a check, or whose transfer panics, fails the whole call.
RECURSIVE batch_walk(_, _, _, _)
batch_walk(sender, entries, i, sender_balance) ==
    IF i > Len(entries) THEN "Ok"
    ELSE LET params == entries[i]
         IN  IF sender = params.recipient THEN "InvalidRecipient"
             ELSE IF params.total_amount <= 0 THEN "InvalidAmount"
             ELSE IF params.end_time <= params.start_time THEN "InvalidDuration"
             ELSE IF params.start_time < now THEN "InvalidStartTime"
             ELSE IF sender_balance < params.total_amount THEN "TransferFailed"
             ELSE batch_walk(sender, entries, i + 1,
                             sender_balance - params.total_amount)

\* What create_batch_streams(sender, streams) returns when it fails, else "Ok".
create_batch_streams_result(sender, entries) ==
    IF ~stream_has_admin THEN "NotInitialized"
    ELSE batch_walk(sender, entries, 1, balance[sender])

\* The ids a batch assigns: count, count + 1, ... in entry order.
batch_ids(entries) == [k \in 1..Len(entries) |-> stream_count + k - 1]

\* The sum of the entries' total_amount from entry i on.
RECURSIVE batch_total(_, _)
batch_total(entries, i) ==
    IF i > Len(entries) THEN 0
    ELSE entries[i].total_amount + batch_total(entries, i + 1)

\* The ids of the batch whose entry names `recipient`, in entry order.
RECURSIVE batch_ids_for(_, _, _)
batch_ids_for(entries, recipient, i) ==
    IF i > Len(entries) THEN <<>>
    ELSE (IF entries[i].recipient = recipient
             THEN <<stream_count + i - 1>> ELSE <<>>)
         \o batch_ids_for(entries, recipient, i + 1)

\* create_batch_streams: how many entries, from entry i on, the loop has
\* transferred and stored when it stops (at the first entry that fails, or
\* at the end of the list).
RECURSIVE batch_written(_, _, _, _)
batch_written(sender, entries, i, sender_balance) ==
    IF i > Len(entries) THEN 0
    ELSE LET params == entries[i]
         IN  IF \/ sender = params.recipient
                \/ params.total_amount <= 0
                \/ params.end_time <= params.start_time
                \/ params.start_time < now
                \/ sender_balance < params.total_amount
             THEN 0
             ELSE 1 + batch_written(sender, entries, i + 1,
                                    sender_balance - params.total_amount)

\* create_batch_streams: the transfers and writes of a loop that ran over
\* all of `entries`, with the count written back and the value returned.
batch_commit(sender, entries) ==
         LET n == Len(entries)
             new_ids == {stream_count + k - 1 : k \in 1..n}
             entry_of(id) == entries[id - stream_count + 1]
         IN  /\ balance' = transfer(balance, sender, ContractAddr, batch_total(entries, 1))
             /\ streams' = [id \in (DOMAIN streams) \cup new_ids |->
                    IF id \in new_ids
                    THEN new_stream(id, sender, entry_of(id).recipient,
                                    entry_of(id).total_amount, entry_of(id).start_time,
                                    entry_of(id).end_time)
                    ELSE streams[id]]
             /\ stream_count' = stream_count + n
             /\ sender_streams' = [sender_streams EXCEPT ![sender] = @ \o batch_ids(entries)]
             /\ recipient_streams' = [a \in Addr |->
                    recipient_streams[a] \o batch_ids_for(entries, a, 1)]
             /\ stream_out' = [id \in (DOMAIN stream_out) \cup new_ids |->
                    IF id \in new_ids
                    THEN [escrowed |-> entry_of(id).total_amount,
                          to_recipient |-> 0, to_sender |-> 0]
                    ELSE stream_out[id]]
             /\ last' = Outcome("create_batch_streams", sender, stream_count, n, 0, 0)
             /\ UNCHANGED <<now, stream_admin, vesting_vars, treasury_vars, governance_vars>>

\* create_batch_streams(sender, streams).  An Err return rolls back what the
\* loop did for the entries before the failing one.
create_batch_streams(sender, entries) ==
    IF create_batch_streams_result(sender, entries) # "Ok"
    THEN UNCHANGED vars
    ELSE batch_commit(sender, entries)

\* Mutant of stream_claim_result: the caller is not compared with the recipient.
stream_claim_result_any_caller(recipient, stream_id) ==
    IF ~stream_has_admin THEN "NotInitialized"
    ELSE IF ~has_stream(stream_id) THEN "StreamNotFound"
    ELSE IF streams[stream_id].status = "Cancelled" THEN "StreamAlreadyCancelled"
    ELSE IF streams[stream_id].status = "Completed" THEN "StreamCompleted"
    ELSE IF calculate_claimable(now, streams[stream_id]) <= 0 THEN "NothingToClaim"
    ELSE "Ok"

\* Mutant of stream_claim_result: a Cancelled stream is not turned away.
stream_claim_result_after_cancel(recipient, stream_id) ==
    IF ~stream_has_admin THEN "NotInitialized"
    ELSE IF ~has_stream(stream_id) THEN "StreamNotFound"
    ELSE IF streams[stream_id].recipient # recipient THEN "Unauthorized"
    ELSE IF streams[stream_id].status = "Completed" THEN "StreamCompleted"
    ELSE IF calculate_claimable(now, streams[stream_id]) <= 0 THEN "NothingToClaim"
    ELSE "Ok"

\* What claim(recipient, stream_id) returns when it fails, else "Ok".
stream_claim_result(recipient, stream_id) ==
    IF ~stream_has_admin THEN "NotInitialized"
    ELSE IF ~has_stream(stream_id) THEN "StreamNotFound"
    ELSE IF streams[stream_id].recipient # recipient THEN "Unauthorized"
    ELSE IF streams[stream_id].status = "Cancelled" THEN "StreamAlreadyCancelled"
    ELSE IF streams[stream_id].status = "Completed" THEN "StreamCompleted"
    ELSE IF calculate_claimable(now, streams[stream_id]) <= 0 THEN "NothingToClaim"
    ELSE "Ok"

\* Mutant of stream_after_claim: the status is left as it was.
stream_after_claim_stays_active(t, stream) ==
    LET claimable == calculate_claimable(t, stream)
    IN  [stream EXCEPT
            !.claimed_amount = stream.claimed_amount + claimable,
            !.last_claim_time = t]

\* The record claim writes back and the amount it transfers.
stream_after_claim(t, stream) ==
    LET claimable == calculate_claimable(t, stream)
        claimed == stream.claimed_amount + claimable
    IN  [stream EXCEPT
            !.claimed_amount = claimed,
            !.last_claim_time = t,
            !.status = IF claimed >= stream.total_amount THEN "Completed" ELSE @]

\* claim(recipient, stream_id)
stream_claim(recipient, stream_id) ==
    IF stream_claim_result(recipient, stream_id) # "Ok"
    THEN UNCHANGED vars
    ELSE LET stream == streams[stream_id]
             claimable == calculate_claimable(now, stream)
         IN  /\ streams' = set_record(streams, stream_id, stream_after_claim(now, stream))
             /\ balance' = transfer(balance, ContractAddr, recipient, claimable)
             /\ stream_out' = [stream_out EXCEPT
                    ![stream_id].to_recipient = @ + claimable]
             /\ last' = Outcome("stream_claim", recipient, stream_id,
                                claimable, claimable, 0)
             /\ UNCHANGED <<now, stream_admin, stream_count, sender_streams,
                            recipient_streams, vesting_vars, treasury_vars, governance_vars>>

\* Mutant of cancel_stream_result: a Completed stream is not turned away.
cancel_stream_result_after_completion(sender, stream_id) ==
    IF ~stream_has_admin THEN "NotInitialized"
    ELSE IF ~has_stream(stream_id) THEN "StreamNotFound"
    ELSE IF streams[stream_id].sender # sender THEN "Unauthorized"
    ELSE IF streams[stream_id].status = "Cancelled" THEN "StreamAlreadyCancelled"
    ELSE "Ok"

\* What cancel_stream(sender, stream_id) returns.
cancel_stream_result(sender, stream_id) ==
    IF ~stream_has_admin THEN "NotInitialized"
    ELSE IF ~has_stream(stream_id) THEN "StreamNotFound"
    ELSE IF streams[stream_id].sender # sender THEN "Unauthorized"
    ELSE IF streams[stream_id].status = "Cancelled" THEN "StreamAlreadyCancelled"
    ELSE IF streams[stream_id].status = "Completed" THEN "StreamCompleted"
    ELSE "Ok"

\* Mutant of cancel_settlement: the refund forgets what was already claimed.
cancel_settlement_ignores_claimed(t, stream) ==
    LET claimable == calculate_claimable(t, stream)
        refund == stream.total_amount - claimable
    IN  [to_recipient |-> IF claimable > 0 THEN claimable ELSE 0,
         to_sender |-> IF refund > 0 THEN refund ELSE 0]

\* The two transfers of cancel_stream at ledger time t: to the recipient
\* (claimable, if > 0) and to the sender (refund, if > 0).
cancel_settlement(t, stream) ==
    LET claimable == calculate_claimable(t, stream)
        refund == stream.total_amount - stream.claimed_amount - claimable
    IN  [to_recipient |-> IF claimable > 0 THEN claimable ELSE 0,
         to_sender |-> IF refund > 0 THEN refund ELSE 0]

\* cancel_stream(sender, stream_id)
cancel_stream(sender, stream_id) ==
    IF cancel_stream_result(sender, stream_id) # "Ok"
    THEN UNCHANGED vars
    ELSE LET stream == streams[stream_id]
             settle == cancel_settlement(now, stream)
         IN  /\ streams' = set_record(streams, stream_id,
                    [stream EXCEPT !.status = "Cancelled"])
             /\ balance' = transfer(transfer(balance, ContractAddr, stream.recipient,
                                             settle.to_recipient),
                                    ContractAddr, sender, settle.to_sender)
             /\ stream_out' = [stream_out EXCEPT
                    ![stream_id].to_recipient = @ + settle.to_recipient,
                    ![stream_id].to_sender = @ + settle.to_sender]
             /\ last' = Outcome("cancel_stream", sender, stream_id, 0,
                                settle.to_recipient, settle.to_sender)
             /\ UNCHANGED <<now, stream_admin, stream_count, sender_streams,
                            recipient_streams, vesting_vars, treasury_vars, governance_vars>>

\* =============================================================== vesting
\* The VestingSchedule built by create_schedule (token and label left out).
new_schedule(schedule_id, grantor, beneficiary, total_amount, start_time, cliff_duration, cliff_amount, total_duration, revocable) ==
    [id |-> schedule_id,
     grantor |-> grantor,
     beneficiary |-> beneficiary,
     total_amount |-> total_amount,
     claimed_amount |-> 0,
     start_time |-> start_time,
     cliff_duration |-> cliff_duration,
     cliff_amount |-> cliff_amount,
     total_duration |-> total_duration,
     status |-> "Active",
     revocable |-> revocable]

\* Mutant of calculate_vested: nothing vests until after the cliff instant.
calculate_vested_cliff_exclusive(t, schedule) ==
    IF t < schedule.start_time THEN 0
    ELSE LET elapsed == t - schedule.start_time
         IN  IF elapsed <= schedule.cliff_duration THEN 0
             ELSE IF elapsed >= schedule.total_duration THEN schedule.total_amount
             ELSE schedule.cliff_amount
                  + TruncDiv((schedule.total_amount - schedule.cliff_amount)
                                 * (elapsed - schedule.cliff_duration),
                             schedule.total_duration - schedule.cliff_duration)

\* Mutant of calculate_vested: the time-proportional share, without cliff_amount.
calculate_vested_proportional(t, schedule) ==
    IF t < schedule.start_time THEN 0
    ELSE LET elapsed == t - schedule.start_time
         IN  IF elapsed < schedule.cliff_duration THEN 0
             ELSE IF elapsed >= schedule.total_duration THEN schedule.total_amount
             ELSE TruncDiv(schedule.total_amount * elapsed, schedule.total_duration)

\* calculate_vested, with env.ledger().timestamp() passed as `t`.
calculate_vested(t, schedule) ==
    IF t < schedule.start_time THEN 0
    ELSE LET elapsed == t - schedule.start_time
         IN  IF elapsed < schedule.cliff_duration THEN 0
             ELSE IF elapsed >= schedule.total_duration THEN schedule.total_amount
             ELSE LET remaining_amount == schedule.total_amount - schedule.cliff_amount
                      vesting_duration == schedule.total_duration - schedule.cliff_duration
                      time_since_cliff == elapsed - schedule.cliff_duration
                      vested_linear == TruncDiv(remaining_amount * time_since_cliff,
                                                vesting_duration)
                  IN  schedule.cliff_amount + vested_linear

\* get_progress(schedule_id), evaluated at ledger time t (for a stored id).
progress_at(t, schedule) ==
    LET vested == calculate_vested(t, schedule)
        claimable == vested - schedule.claimed_amount
    IN  [total_amount |-> schedule.total_amount,
         vested_amount |-> vested,
         claimed_amount |-> schedule.claimed_amount,
         claimable_amount |-> IF claimable > 0 THEN claimable ELSE 0,
         status |-> schedule.status]

get_progress(schedule_id) == progress_at(now, schedules[schedule_id])

\* storage::get_claim_history: the stored list, empty when nothing is stored.
get_claim_history(schedule_id) == claim_history[schedule_id]

\* storage::add_claim_record: push_back of ClaimRecord { amount, timestamp }.
\* No entry point of the contract calls it.
add_claim_record(history, schedule_id, amount, timestamp) ==
    [history EXCEPT ![schedule_id] =
        Append(@, [amount |-> amount, timestamp |-> timestamp])]

\* What initialize(admin) returns.
vesting_initialize_result(admin) ==
    IF vesting_has_admin THEN "AlreadyInitialized" ELSE "Ok"

\* initialize(admin)
vesting_initialize(admin) ==
    IF vesting_initialize_result(admin) # "Ok"
    THEN UNCHANGED vars
    ELSE /\ vesting_admin' = admin
         /\ schedule_count' = 0
         /\ last' = Outcome("vesting_initialize", admin, 0, 0, 0, 0)
         /\ UNCHANGED <<now, stream_vars, schedules, grantor_schedules,
                        beneficiary_schedules, claim_history, vesting_out, treasury_vars, governance_vars>>

\* What create_schedule returns: the checks in source order.
create_schedule_result(grantor, beneficiary, total_amount, start_time, cliff_duration, cliff_amount, total_duration, revocable) ==
    IF ~vesting_has_admin THEN "NotInitialized"
    ELSE IF total_amount <= 0 THEN "InvalidAmount"
    ELSE IF total_duration = 0 THEN "InvalidSchedule"
    ELSE IF cliff_duration >= total_duration THEN "InvalidCliffDuration"
    ELSE IF cliff_amount < 0 \/ cliff_amount > total_amount THEN "InvalidAmount"
    ELSE "Ok"

\* create_schedule(grantor, beneficiary, token, total_amount, start_time,
\* cliff_duration, cliff_amount, total_duration, label, revocable).  The
\* transfer into escrow is commented out in the source: no token moves.
create_schedule(grantor, beneficiary, total_amount, start_time, cliff_duration, cliff_amount, total_duration, revocable) ==
    LET schedule_id == schedule_count
    IN  IF create_schedule_result(grantor, beneficiary, total_amount, start_time,
               cliff_duration, cliff_amount, total_duration, revocable) # "Ok"
        THEN UNCHANGED vars
        ELSE /\ schedules' = set_record(schedules, schedule_id,
                    new_schedule(schedule_id, grantor, beneficiary, total_amount,
                                 start_time, cliff_duration, cliff_amount,
                                 total_duration, revocable))
             /\ schedule_count' = schedule_id + 1
             /\ grantor_schedules' = add_index(grantor_schedules, grantor, schedule_id)
             /\ beneficiary_schedules' =
                    add_index(beneficiary_schedules, beneficiary, schedule_id)
             /\ vesting_out' = set_record(vesting_out, schedule_id,
                    [granted |-> total_amount, claimed |-> 0, unvested |-> 0])
             /\ last' = Outcome("create_schedule", grantor, schedule_id, schedule_id, 0, 0)
             /\ UNCHANGED <<now, stream_vars, vesting_admin, claim_history, treasury_vars, governance_vars>>

\* What claim(beneficiary, schedule_id) returns when it fails, else "Ok".
vesting_claim_result(beneficiary, schedule_id) ==
    IF ~vesting_has_admin THEN "NotInitialized"
    ELSE IF ~has_schedule(schedule_id) THEN "ScheduleNotFound"
    ELSE IF schedules[schedule_id].beneficiary # beneficiary THEN "Unauthorized"
    ELSE IF schedules[schedule_id].status = "Revoked" THEN "ScheduleRevoked"
    ELSE IF schedules[schedule_id].status = "FullyClaimed" THEN "AlreadyFullyClaimed"
    ELSE IF calculate_vested(now, schedules[schedule_id])
                - schedules[schedule_id].claimed_amount <= 0 THEN "NothingToClaim"
    ELSE "Ok"

\* The record claim writes back.
schedule_after_claim(t, schedule) ==
    LET vested == calculate_vested(t, schedule)
        claimable == vested - schedule.claimed_amount
        claimed == schedule.claimed_amount + claimable
    IN  [schedule EXCEPT
            !.claimed_amount = claimed,
            !.status = IF claimed >= schedule.total_amount THEN "FullyClaimed" ELSE @]

\* claim(beneficiary, schedule_id).  The transfer to the beneficiary is
\* commented out in the source: the call returns claimable and moves no token.
\* The handler does not call add_claim_record: the history is left as it is.
vesting_claim(beneficiary, schedule_id) ==
    IF vesting_claim_result(beneficiary, schedule_id) # "Ok"
    THEN UNCHANGED vars
    ELSE LET schedule == schedules[schedule_id]
             claimable == calculate_vested(now, schedule) - schedule.claimed_amount
         IN  /\ schedules' = set_record(schedules, schedule_id,
                                        schedule_after_claim(now, schedule))
             /\ vesting_out' = [vesting_out EXCEPT ![schedule_id].claimed = @ + claimable]
             /\ last' = Outcome("vesting_claim", beneficiary, schedule_id, claimable, 0, 0)
             /\ UNCHANGED <<now, stream_vars, vesting_admin, schedule_count,
                            grantor_schedules, beneficiary_schedules, claim_history, treasury_vars, governance_vars>>

\* What revoke(grantor, schedule_id) returns when it fails, else "Ok".
revoke_result(grantor, schedule_id) ==
    IF ~vesting_has_admin THEN "NotInitialized"
    ELSE IF ~has_schedule(schedule_id) THEN "ScheduleNotFound"
    ELSE IF schedules[schedule_id].grantor # grantor THEN "Unauthorized"
    ELSE IF schedules[schedule_id].status = "Revoked" THEN "ScheduleRevoked"
    ELSE IF ~schedules[schedule_id].revocable THEN "Unauthorized"
    ELSE "Ok"

\* Mutant of schedule_after_revoke: the cap is the unvested amount.
schedule_after_revoke_unvested(t, schedule) ==
    [schedule EXCEPT
        !.status = "Revoked",
        !.total_amount = schedule.total_amount - calculate_vested(t, schedule)]

\* The record revoke writes back: Revoked, total_amount capped at vested.
schedule_after_revoke(t, schedule) ==
    [schedule EXCEPT
        !.status = "Revoked",
        !.total_amount = calculate_vested(t, schedule)]

\* revoke(grantor, schedule_id).  The refund to the grantor is commented out
\* in the source: the call returns unvested and moves no token.
revoke(grantor, schedule_id) ==
    IF revoke_result(grantor, schedule_id) # "Ok"
    THEN UNCHANGED vars
    ELSE LET schedule == schedules[schedule_id]
             unvested == schedule.total_amount - calculate_vested(now, schedule)
         IN  /\ schedules' = set_record(schedules, schedule_id,
                                        schedule_after_revoke(now, schedule))
             /\ vesting_out' = [vesting_out EXCEPT ![schedule_id].unvested = @ + unvested]
             /\ last' = Outcome("revoke", grantor, schedule_id, unvested, 0, 0)
             /\ UNCHANGED <<now, stream_vars, vesting_admin, schedule_count,
                            grantor_schedules, beneficiary_schedules, claim_history, treasury_vars, governance_vars>>

\* ======================================= the order of checks and writes
\* A handler is a list of steps in the order of its source: a check, which
\* returns its error when it fails, or a write (a storage write or a token
\* transfer), which is issued when the handler gets to it.
Check(fails, error) == [check |-> TRUE, fails |-> fails, name |-> error]
Write(name) == [check |-> FALSE, fails |-> FALSE, name |-> name]

\* The steps from step i on, run in order: the first failing check returns
\* its error; `issued` lists the writes and transfers issued before the
\* return (the host rolls these back when the result is an error).
RECURSIVE run_steps(_, _, _)
run_steps(steps, i, issued) ==
    IF i > Len(steps) THEN [result |-> "Ok", issued |-> issued]
    ELSE IF steps[i].check
         THEN IF steps[i].fails
              THEN [result |-> steps[i].name, issued |-> issued]
              ELSE run_steps(steps, i + 1, issued)
         ELSE run_steps(steps, i + 1, Append(issued, steps[i].name))

\* What a handler with these steps returns and what it has issued by then.
outcome_of(steps) == run_steps(steps, 1, <<>>)

\* The checks and writes of one stream creation, for a sender whose balance
\* is sender_balance when the entry is reached (create_stream, and the loop
\* body of create_batch_streams).  A transfer the balance cannot cover panics.
stream_entry_steps(sender, recipient, total_amount, start_time, end_time, sender_balance) ==
    <<Check(sender = recipient, "InvalidRecipient"),
      Check(total_amount <= 0, "InvalidAmount"),
      Check(end_time <= start_time, "InvalidDuration"),
      Check(start_time < now, "InvalidStartTime"),
      Check(sender_balance < total_amount, "TransferFailed"),
      Write("transfer"),
      Write("set_stream")>>

\* create_stream: the checks, the transfer into escrow, the record, the
\* count and the two index lists.
create_stream_steps(sender, recipient, total_amount, start_time, end_time) ==
    <<Check(~stream_has_admin, "NotInitialized")>>
    \o stream_entry_steps(sender, recipient, total_amount, start_time, end_time, balance[sender])
    \o <<Write("set_stream_count"), Write("add_sender_stream"), Write("add_recipient_stream")>>

\* create_batch_streams: the loop body once per entry, from entry i on, each
\* entry followed by its index pushes; the count is written after the loop.
RECURSIVE batch_steps(_, _, _, _)
batch_steps(sender, entries, i, sender_balance) ==
    IF i > Len(entries) THEN <<Write("set_stream_count")>>
    ELSE stream_entry_steps(sender, entries[i].recipient, entries[i].total_amount, entries[i].start_time, entries[i].end_time, sender_balance)
         \o <<Write("add_sender_stream"), Write("add_recipient_stream")>>
         \o batch_steps(sender, entries, i + 1, sender_balance - entries[i].total_amount)

create_batch_streams_steps(sender, entries) ==
    <<Check(~stream_has_admin, "NotInitialized")>> \o batch_steps(sender, entries, 1, balance[sender])

\* A claim that transfers before it looks at the claimable amount.
stream_claim_steps_transfer_first(recipient, stream_id) ==
    <<Check(~stream_has_admin, "NotInitialized"),
      Check(~has_stream(stream_id), "StreamNotFound")>>
    \o (IF ~has_stream(stream_id) THEN <<>>
        ELSE <<Check(streams[stream_id].recipient # recipient, "Unauthorized"),
               Check(streams[stream_id].status = "Cancelled", "StreamAlreadyCancelled"),
               Check(streams[stream_id].status = "Completed", "StreamCompleted"),
               Write("transfer"),
               Check(calculate_claimable(now, streams[stream_id]) <= 0, "NothingToClaim"),
               Write("set_stream")>>)

\* claim of payroll_stream: the checks, then the transfer and the record.
stream_claim_steps(recipient, stream_id) ==
    <<Check(~stream_has_admin, "NotInitialized"),
      Check(~has_stream(stream_id), "StreamNotFound")>>
    \o (IF ~has_stream(stream_id) THEN <<>>
        ELSE <<Check(streams[stream_id].recipient # recipient, "Unauthorized"),
               Check(streams[stream_id].status = "Cancelled", "StreamAlreadyCancelled"),
               Check(streams[stream_id].status = "Completed", "StreamCompleted"),
               Check(calculate_claimable(now, streams[stream_id]) <= 0, "NothingToClaim"),
               Write("transfer"),
               Write("set_stream")>>)

\* cancel_stream: the checks, the transfers that are due, then the record.
cancel_stream_steps(sender, stream_id) ==
    <<Check(~stream_has_admin, "NotInitialized"),
      Check(~has_stream(stream_id), "StreamNotFound")>>
    \o (IF ~has_stream(stream_id) THEN <<>>
        ELSE <<Check(streams[stream_id].sender # sender, "Unauthorized"),
               Check(streams[stream_id].status = "Cancelled", "StreamAlreadyCancelled"),
               Check(streams[stream_id].status = "Completed", "StreamCompleted")>>
             \o (IF cancel_settlement(now, streams[stream_id]).to_recipient > 0 THEN <<Write("transfer")>> ELSE <<>>)
             \o (IF cancel_settlement(now, streams[stream_id]).to_sender > 0 THEN <<Write("transfer")>> ELSE <<>>)
             \o <<Write("set_stream")>>)

\* create_schedule: the checks, then the record, the count and the two index
\* lists (the transfer is commented out in the source).
create_schedule_steps(grantor, beneficiary, total_amount, start_time, cliff_duration, cliff_amount, total_duration, revocable) ==
    <<Check(~vesting_has_admin, "NotInitialized"),
      Check(total_amount <= 0, "InvalidAmount"),
      Check(total_duration = 0, "InvalidSchedule"),
      Check(cliff_duration >= total_duration, "InvalidCliffDuration"),
      Check(cliff_amount < 0 \/ cliff_amount > total_amount, "InvalidAmount"),
      Write("set_schedule"),
      Write("set_schedule_count"),
      Write("add_grantor_schedule"),
      Write("add_beneficiary_schedule")>>

\* claim of vesting: the checks, then the record.
vesting_claim_steps(beneficiary, schedule_id) ==
    <<Check(~vesting_has_admin, "NotInitialized"),
      Check(~has_schedule(schedule_id), "ScheduleNotFound")>>
    \o (IF ~has_schedule(schedule_id) THEN <<>>
        ELSE <<Check(schedules[schedule_id].beneficiary # beneficiary, "Unauthorized"),
               Check(schedules[schedule_id].status = "Revoked", "ScheduleRevoked"),
               Check(schedules[schedule_id].status = "FullyClaimed", "AlreadyFullyClaimed"),
               Check(calculate_vested(now, schedules[schedule_id]) - schedules[schedule_id].claimed_amount <= 0, "NothingToClaim"),
               Write("set_schedule")>>)

\* revoke: the checks, then the record.
revoke_steps(grantor, schedule_id) ==
    <<Check(~vesting_has_admin, "NotInitialized"),
      Check(~has_schedule(schedule_id), "ScheduleNotFound")>>
    \o (IF ~has_schedule(schedule_id) THEN <<>>
        ELSE <<Check(schedules[schedule_id].grantor # grantor, "Unauthorized"),
               Check(schedules[schedule_id].status = "Revoked", "ScheduleRevoked"),
               Check(~schedules[schedule_id].revocable, "Unauthorized"),
               Write("set_schedule")>>)

\* ============================================================== treasury
treasury_has_admin == treasury_admin # "none"
has_withdrawal(id) == id \in DOMAIN withdrawals

\* The loop `for i in 0..signers.len() { if signers.get(i) == who ... }`.
is_signer(list, who) == \E i \in 1..Len(list) : list[i] = who

\* What initialize(admin, signers, threshold) returns.
treasury_initialize_result(admin, new_signers, new_threshold) ==
    IF treasury_has_admin THEN "AlreadyInitialized"
    ELSE IF new_threshold = 0 \/ new_threshold > Len(new_signers) THEN "InvalidThreshold"
    ELSE "Ok"

\* initialize(admin, signers, threshold)
treasury_initialize(admin, new_signers, new_threshold) ==
    IF treasury_initialize_result(admin, new_signers, new_threshold) # "Ok"
    THEN UNCHANGED vars
    ELSE /\ treasury_admin' = admin
         /\ signers' = new_signers
         /\ threshold' = new_threshold
         /\ proposal_count' = 0
         /\ UNCHANGED <<now, last, stream_vars, vesting_vars, withdrawals, treasury_balance, treasury_received, governance_vars>>

\* What deposit(from, token, amount) returns.
deposit_result(from, amount) ==
    IF ~treasury_has_admin THEN "NotInitialized"
    ELSE IF amount <= 0 THEN "InvalidAmount"
    ELSE "Ok"

\* deposit(from, token, amount): the token transfer is not made (it is a TODO
\* in the source), so an accepted deposit writes nothing.
deposit(from, amount) ==
    IF deposit_result(from, amount) # "Ok"
    THEN UNCHANGED vars
    ELSE UNCHANGED vars

\* What create_withdrawal(proposer, token, recipient, amount, memo) returns.
create_withdrawal_result(proposer, recipient, amount) ==
    IF ~treasury_has_admin THEN "NotInitialized"
    ELSE IF ~is_signer(signers, proposer) THEN "NotASigner"
    ELSE IF amount <= 0 THEN "InvalidAmount"
    ELSE "Ok"

\* The WithdrawalRequest create_withdrawal stores (one token; the memo is not kept).
new_withdrawal(proposal_id, proposer, recipient, amount, created_at) ==
    [id |-> proposal_id,
     proposer |-> proposer,
     recipient |-> recipient,
     amount |-> amount,
     approvals |-> <<proposer>>,
     status |-> "Pending",
     created_at |-> created_at]

\* create_withdrawal(proposer, token, recipient, amount, memo)
create_withdrawal(proposer, recipient, amount) ==
    IF create_withdrawal_result(proposer, recipient, amount) # "Ok"
    THEN UNCHANGED vars
    ELSE /\ withdrawals' = set_record(withdrawals, proposal_count,
                new_withdrawal(proposal_count, proposer, recipient, amount, now))
         /\ proposal_count' = proposal_count + 1
         /\ UNCHANGED <<now, last, stream_vars, vesting_vars, treasury_admin, signers, threshold, treasury_balance, treasury_received, governance_vars>>

\* An approve_withdrawal that does not look for the signer among the approvals.
approve_withdrawal_result_twice(signer, proposal_id) ==
    IF ~treasury_has_admin THEN "NotInitialized"
    ELSE IF ~is_signer(signers, signer) THEN "NotASigner"
    ELSE IF ~has_withdrawal(proposal_id) THEN "ProposalNotFound"
    ELSE IF withdrawals[proposal_id].status # "Pending" THEN "ProposalNotPending"
    ELSE "Ok"

\* What approve_withdrawal(signer, proposal_id) returns.
approve_withdrawal_result(signer, proposal_id) ==
    IF ~treasury_has_admin THEN "NotInitialized"
    ELSE IF ~is_signer(signers, signer) THEN "NotASigner"
    ELSE IF ~has_withdrawal(proposal_id) THEN "ProposalNotFound"
    ELSE IF withdrawals[proposal_id].status # "Pending" THEN "ProposalNotPending"
    ELSE IF is_signer(withdrawals[proposal_id].approvals, signer) THEN "AlreadyApproved"
    ELSE "Ok"

\* A request that is marked Approved by any approval.
request_after_approval_any(request, signer, required) ==
    [request EXCEPT !.approvals = Append(@, signer), !.status = "Approved"]

\* The request after push_back(signer): Approved once the approvals reach the threshold.
request_after_approval(request, signer, required) ==
    LET approvals == Append(request.approvals, signer)
    IN  [request EXCEPT !.approvals = approvals,
                        !.status = IF Len(approvals) >= required THEN "Approved" ELSE @]

\* approve_withdrawal(signer, proposal_id)
approve_withdrawal(signer, proposal_id) ==
    IF approve_withdrawal_result(signer, proposal_id) # "Ok"
    THEN UNCHANGED vars
    ELSE /\ withdrawals' = set_record(withdrawals, proposal_id,
                request_after_approval(withdrawals[proposal_id], signer, threshold))
         /\ UNCHANGED <<now, last, stream_vars, vesting_vars, treasury_admin, signers, threshold, proposal_count, treasury_balance, treasury_received, governance_vars>>

\* An execute_withdrawal that also accepts a request already Executed.
execute_withdrawal_result_again(executor, proposal_id) ==
    IF ~treasury_has_admin THEN "NotInitialized"
    ELSE IF ~has_withdrawal(proposal_id) THEN "ProposalNotFound"
    ELSE IF withdrawals[proposal_id].status \notin {"Approved", "Executed"} THEN "ProposalNotApproved"
    ELSE IF treasury_balance < withdrawals[proposal_id].amount THEN "InsufficientBalance"
    ELSE "Ok"

\* What execute_withdrawal(executor, proposal_id) returns.
execute_withdrawal_result(executor, proposal_id) ==
    IF ~treasury_has_admin THEN "NotInitialized"
    ELSE IF ~has_withdrawal(proposal_id) THEN "ProposalNotFound"
    ELSE IF withdrawals[proposal_id].status # "Approved" THEN "ProposalNotApproved"
    ELSE IF treasury_balance < withdrawals[proposal_id].amount THEN "InsufficientBalance"
    ELSE "Ok"

\* execute_withdrawal(executor, proposal_id)
execute_withdrawal(executor, proposal_id) ==
    IF execute_withdrawal_result(executor, proposal_id) # "Ok"
    THEN UNCHANGED vars
    ELSE LET request == withdrawals[proposal_id]
         IN  /\ treasury_balance' = treasury_balance - request.amount
             /\ treasury_received' = [treasury_received EXCEPT ![request.recipient] = @ + request.amount]
             /\ withdrawals' = set_record(withdrawals, proposal_id, [request EXCEPT !.status = "Executed"])
             /\ UNCHANGED <<now, last, stream_vars, vesting_vars, treasury_admin, signers, threshold, proposal_count, governance_vars>>

\* What add_signer(admin, new_signer) returns.
add_signer_result(admin, new_signer) ==
    IF ~treasury_has_admin THEN "NotInitialized"
    ELSE IF admin # treasury_admin THEN "Unauthorized"
    ELSE IF is_signer(signers, new_signer) THEN "AlreadyASigner"
    ELSE "Ok"

\* add_signer(admin, new_signer)
add_signer(admin, new_signer) ==
    IF add_signer_result(admin, new_signer) # "Ok"
    THEN UNCHANGED vars
    ELSE /\ signers' = Append(signers, new_signer)
         /\ UNCHANGED <<now, last, stream_vars, vesting_vars, treasury_admin, threshold, proposal_count, withdrawals, treasury_balance, treasury_received, governance_vars>>

\* The loop of remove_signer: every entry equal to `signer` is left out.
RECURSIVE without_signer(_, _)
without_signer(list, signer) ==
    IF list = <<>> THEN <<>>
    ELSE IF Head(list) = signer THEN without_signer(Tail(list), signer)
    ELSE <<Head(list)>> \o without_signer(Tail(list), signer)

\* What remove_signer(admin, signer) returns.
remove_signer_result(admin, signer) ==
    IF ~treasury_has_admin THEN "NotInitialized"
    ELSE IF admin # treasury_admin THEN "Unauthorized"
    ELSE IF Len(signers) <= threshold THEN "InvalidThreshold"
    ELSE IF ~is_signer(signers, signer) THEN "NotASigner"
    ELSE "Ok"

\* remove_signer(admin, signer)
remove_signer(admin, signer) ==
    IF remove_signer_result(admin, signer) # "Ok"
    THEN UNCHANGED vars
    ELSE /\ signers' = without_signer(signers, signer)
         /\ UNCHANGED <<now, last, stream_vars, vesting_vars, treasury_admin, threshold, proposal_count, withdrawals, treasury_balance, treasury_received, governance_vars>>

\* What update_threshold(admin, new_threshold) returns.
update_threshold_result(admin, new_threshold) ==
    IF ~treasury_has_admin THEN "NotInitialized"
    ELSE IF admin # treasury_admin THEN "Unauthorized"
    ELSE IF new_threshold = 0 \/ new_threshold > Len(signers) THEN "InvalidThreshold"
    ELSE "Ok"

\* update_threshold(admin, new_threshold)
update_threshold(admin, new_threshold) ==
    IF update_threshold_result(admin, new_threshold) # "Ok"
    THEN UNCHANGED vars
    ELSE /\ threshold' = new_threshold
         /\ UNCHANGED <<now, last, stream_vars, vesting_vars, treasury_admin, signers, proposal_count, withdrawals, treasury_balance, treasury_received, governance_vars>>

\* The token's mint to the treasury contract's address: how the treasury
\* comes to hold the tokens a withdrawal pays out.
mint(amount) ==
    /\ treasury_balance + amount <= MaxAmount
    /\ treasury_balance' = treasury_balance + amount
    /\ UNCHANGED <<now, last, stream_vars, vesting_vars, treasury_admin, signers, threshold, proposal_count, withdrawals, treasury_received, governance_vars>>

\* ============================================================ governance
governance_has_admin == governance_admin # "none"
has_proposal(id) == id \in DOMAIN proposals

\* storage::is_member: the loop over the stored member list.
is_member(list, address) == \E i \in 1..Len(list) : list[i] = address

\* storage::get_grace_period: DataKey::GracePeriod is written nowhere, so the
\* read always falls back to unwrap_or(0).
get_grace_period == 0

\* What initialize(admin, members, quorum_percentage, voting_duration) returns.
governance_initialize_result(admin, new_members, quorum, duration) ==
    IF governance_has_admin THEN "AlreadyInitialized" ELSE "Ok"

\* initialize(admin, members, quorum_percentage, voting_duration)
governance_initialize(admin, new_members, quorum, duration) ==
    IF governance_initialize_result(admin, new_members, quorum, duration) # "Ok"
    THEN UNCHANGED vars
    ELSE /\ governance_admin' = admin
         /\ members' = new_members
         /\ quorum_percentage' = quorum
         /\ voting_duration' = duration
         /\ governance_count' = 0
         /\ UNCHANGED <<now, last, stream_vars, vesting_vars, treasury_vars, proposals>>

\* What create_proposal(proposer, title, token, amount, recipient) returns.
create_proposal_result(proposer, amount, recipient) ==
    IF ~governance_has_admin THEN "NotInitialized"
    ELSE IF ~is_member(members, proposer) THEN "NotAMember"
    ELSE IF amount <= 0 THEN "InvalidAmount"
    ELSE "Ok"

\* The Proposal create_proposal stores (title and token are not kept).
new_proposal(proposal_id, proposer, amount, recipient, t, duration) ==
    [id |-> proposal_id,
     proposer |-> proposer,
     amount |-> amount,
     recipient |-> recipient,
     yes_votes |-> 0,
     no_votes |-> 0,
     abstain_votes |-> 0,
     votes |-> <<>>,
     status |-> "Active",
     start_time |-> t,
     end_time |-> t + duration]

\* create_proposal(proposer, title, token, amount, recipient)
create_proposal(proposer, amount, recipient) ==
    IF create_proposal_result(proposer, amount, recipient) # "Ok"
    THEN UNCHANGED vars
    ELSE /\ proposals' = set_record(proposals, governance_count,
                new_proposal(governance_count, proposer, amount, recipient, now, voting_duration))
         /\ governance_count' = governance_count + 1
         /\ UNCHANGED <<now, last, stream_vars, vesting_vars, treasury_vars, governance_admin, members, quorum_percentage, voting_duration>>

\* The loop of vote over proposal.votes.
has_voted(proposal, voter) == \E i \in 1..Len(proposal.votes) : proposal.votes[i].voter = voter

\* A vote that does not compare the ledger time with end_time.
vote_result_late(voter, proposal_id, choice) ==
    IF ~governance_has_admin THEN "NotInitialized"
    ELSE IF ~is_member(members, voter) THEN "NotAMember"
    ELSE IF ~has_proposal(proposal_id) THEN "ProposalNotFound"
    ELSE IF proposals[proposal_id].status # "Active" THEN "VotingNotActive"
    ELSE IF has_voted(proposals[proposal_id], voter) THEN "AlreadyVoted"
    ELSE "Ok"

\* A vote that does not look for the voter among the vote records.
vote_result_repeat(voter, proposal_id, choice) ==
    IF ~governance_has_admin THEN "NotInitialized"
    ELSE IF ~is_member(members, voter) THEN "NotAMember"
    ELSE IF ~has_proposal(proposal_id) THEN "ProposalNotFound"
    ELSE IF proposals[proposal_id].status # "Active" THEN "VotingNotActive"
    ELSE IF now > proposals[proposal_id].end_time THEN "VotingPeriodExpired"
    ELSE "Ok"

\* What vote(voter, proposal_id, choice) returns.
vote_result(voter, proposal_id, choice) ==
    IF ~governance_has_admin THEN "NotInitialized"
    ELSE IF ~is_member(members, voter) THEN "NotAMember"
    ELSE IF ~has_proposal(proposal_id) THEN "ProposalNotFound"
    ELSE IF proposals[proposal_id].status # "Active" THEN "VotingNotActive"
    ELSE IF now > proposals[proposal_id].end_time THEN "VotingPeriodExpired"
    ELSE IF has_voted(proposals[proposal_id], voter) THEN "AlreadyVoted"
    ELSE "Ok"

\* The proposal after the tally is raised and the VoteRecord pushed.
proposal_after_vote(proposal, voter, choice, t) ==
    [proposal EXCEPT
        !.yes_votes = IF choice = "Yes" THEN @ + 1 ELSE @,
        !.no_votes = IF choice = "No" THEN @ + 1 ELSE @,
        !.abstain_votes = IF choice = "Abstain" THEN @ + 1 ELSE @,
        !.votes = Append(@, [voter |-> voter, choice |-> choice, timestamp |-> t])]

\* vote(voter, proposal_id, choice)
vote(voter, proposal_id, choice) ==
    IF vote_result(voter, proposal_id, choice) # "Ok"
    THEN UNCHANGED vars
    ELSE /\ proposals' = set_record(proposals, proposal_id,
                proposal_after_vote(proposals[proposal_id], voter, choice, now))
         /\ UNCHANGED <<now, last, stream_vars, vesting_vars, treasury_vars, governance_admin, members, quorum_percentage, voting_duration, governance_count>>

\* The status finalize decides: quorum_threshold = (members.len() * quorum_pct) / 100.
finalize_status(proposal, member_list, quorum_pct) ==
    LET total_votes == proposal.yes_votes + proposal.no_votes + proposal.abstain_votes
        quorum_threshold == (Len(member_list) * quorum_pct) \div 100
    IN  IF total_votes < quorum_threshold THEN "Rejected"
        ELSE IF proposal.yes_votes > proposal.no_votes THEN "Approved"
        ELSE "Rejected"

\* What finalize(caller, proposal_id) returns: an error, or the status it stored.
finalize_result(caller, proposal_id) ==
    IF ~governance_has_admin THEN "NotInitialized"
    ELSE IF ~has_proposal(proposal_id) THEN "ProposalNotFound"
    ELSE IF proposals[proposal_id].status # "Active" THEN "VotingNotActive"
    ELSE IF now <= proposals[proposal_id].end_time THEN "ProposalStillActive"
    ELSE finalize_status(proposals[proposal_id], members, quorum_percentage)

\* finalize(caller, proposal_id)
finalize(caller, proposal_id) ==
    IF finalize_result(caller, proposal_id) \notin {"Approved", "Rejected"}
    THEN UNCHANGED vars
    ELSE /\ proposals' = set_record(proposals, proposal_id,
                [proposals[proposal_id] EXCEPT !.status = finalize_status(proposals[proposal_id], members, quorum_percentage)])
         /\ UNCHANGED <<now, last, stream_vars, vesting_vars, treasury_vars, governance_admin, members, quorum_percentage, voting_duration, governance_count>>

\* An execute that does not look at the proposal's status.
execute_result_any(admin, proposal_id) ==
    IF ~governance_has_admin THEN "NotInitialized"
    ELSE IF admin # governance_admin THEN "Unauthorized"
    ELSE IF ~has_proposal(proposal_id) THEN "ProposalNotFound"
    ELSE "Ok"

\* What execute(admin, proposal_id) returns.
execute_result(admin, proposal_id) ==
    IF ~governance_has_admin THEN "NotInitialized"
    ELSE IF admin # governance_admin THEN "Unauthorized"
    ELSE IF ~has_proposal(proposal_id) THEN "ProposalNotFound"
    ELSE IF proposals[proposal_id].status # "Approved" THEN "ProposalNotApproved"
    ELSE "Ok"

\* execute(admin, proposal_id): the transfer is a TODO in the source; only the
\* status is written.
execute(admin, proposal_id) ==
    IF execute_result(admin, proposal_id) # "Ok"
    THEN UNCHANGED vars
    ELSE /\ proposals' = set_record(proposals, proposal_id, [proposals[proposal_id] EXCEPT !.status = "Executed"])
         /\ UNCHANGED <<now, last, stream_vars, vesting_vars, treasury_vars, governance_admin, members, quorum_percentage, voting_duration, governance_count>>

\* What cancel_proposal(proposer, proposal_id) returns.
cancel_proposal_result(proposer, proposal_id) ==
    IF ~governance_has_admin THEN "NotInitialized"
    ELSE IF ~has_proposal(proposal_id) THEN "ProposalNotFound"
    ELSE IF proposals[proposal_id].proposer # proposer THEN "Unauthorized"
    ELSE IF proposals[proposal_id].status # "Active" THEN "VotingNotActive"
    ELSE "Ok"

\* cancel_proposal(proposer, proposal_id)
cancel_proposal(proposer, proposal_id) ==
    IF cancel_proposal_result(proposer, proposal_id) # "Ok"
    THEN UNCHANGED vars
    ELSE /\ proposals' = set_record(proposals, proposal_id, [proposals[proposal_id] EXCEPT !.status = "Cancelled"])
         /\ UNCHANGED <<now, last, stream_vars, vesting_vars, treasury_vars, governance_admin, members, quorum_percentage, voting_duration, governance_count>>

\* What add_member(admin, new_member) returns.  Before initialize the
\* unwrap of the missing admin traps.
add_member_result(admin, new_member) ==
    IF ~governance_has_admin THEN "Trap"
    ELSE IF admin # governance_admin THEN "Unauthorized"
    ELSE IF is_member(members, new_member) THEN "AlreadyVoted"
    ELSE "Ok"

\* add_member(admin, new_member)
add_member(admin, new_member) ==
    IF add_member_result(admin, new_member) # "Ok"
    THEN UNCHANGED vars
    ELSE /\ members' = Append(members, new_member)
         /\ UNCHANGED <<now, last, stream_vars, vesting_vars, treasury_vars, governance_admin, quorum_percentage, voting_duration, governance_count, proposals>>

\* What remove_member(admin, member) returns.
remove_member_result(admin, member) ==
    IF ~governance_has_admin THEN "Trap"
    ELSE IF admin # governance_admin THEN "Unauthorized"
    ELSE IF ~is_member(members, member) THEN "NotAMember"
    ELSE "Ok"

\* remove_member(admin, member): every entry equal to `member` is left out.
remove_member(admin, member) ==
    IF remove_member_result(admin, member) # "Ok"
    THEN UNCHANGED vars
    ELSE /\ members' = without_signer(members, member)
         /\ UNCHANGED <<now, last, stream_vars, vesting_vars, treasury_vars, governance_admin, quorum_percentage, voting_duration, governance_count, proposals>>

\* ================================================================ ledger
\* The ledger closes: the timestamp advances.
Tick ==
    /\ now < MaxTime
    /\ now' = now + 1
    /\ last' = NoCall
    /\ UNCHANGED <<stream_vars, vesting_vars, treasury_vars, governance_vars>>

Init ==
    /\ now = 0
    /\ stream_admin = "none"
    /\ stream_count = 0
    /\ streams = <<>>
    /\ sender_streams = [a \in Addr |-> <<>>]
    /\ recipient_streams = [a \in Addr |-> <<>>]
    /\ balance = [a \in Addr \cup {ContractAddr} |-> IF a \in Addr THEN InitBalance ELSE 0]
    /\ stream_out = <<>>
    /\ vesting_admin = "none"
    /\ schedule_count = 0
    /\ schedules = <<>>
    /\ grantor_schedules = [a \in Addr |-> <<>>]
    /\ beneficiary_schedules = [a \in Addr |-> <<>>]
    /\ claim_history = [id \in ScheduleIds |-> <<>>]
    /\ vesting_out = <<>>
    /\ treasury_admin = "none"
    /\ signers = <<>>
    /\ threshold = 0
    /\ proposal_count = 0
    /\ withdrawals = <<>>
    /\ treasury_balance = 0
    /\ treasury_received = [a \in SignerAddr |-> 0]
    /\ governance_admin = "none"
    /\ members = <<>>
    /\ quorum_percentage = 0
    /\ voting_duration = 0
    /\ governance_count = 0
    /\ proposals = <<>>
    /\ last = NoCall

\* Calls to the payroll_stream contract, with inputs from the bounded sets.
StreamInitialize == \E admin \in Admins : stream_initialize(admin)

CreateStream ==
    /\ stream_count < Cardinality(StreamIds)
    /\ \E sender \in Addr, recipient \in Addr, total_amount \in Amounts,
          start_time \in Times, end_time \in Times :
          create_stream(sender, recipient, total_amount, start_time, end_time)

\* A batch entry (CreateStreamParams) and the batches a call is made with:
\* every non-empty list of entries that the ids still free can hold.  (An
\* empty list stores nothing: the loop body never runs and the count is
\* written back unchanged.)
BatchEntries == [recipient : Addr, total_amount : Amounts,
                 start_time : Times, end_time : Times]

CreateBatchStreams ==
    \E n \in 1..Cardinality(StreamIds) :
        /\ stream_count + n <= Cardinality(StreamIds)
        /\ \E sender \in Addr, entries \in [1..n -> BatchEntries] :
              create_batch_streams(sender, entries)

StreamClaim == \E recipient \in Addr, stream_id \in StreamIds :
                  stream_claim(recipient, stream_id)

CancelStream == \E sender \in Addr, stream_id \in StreamIds :
                   cancel_stream(sender, stream_id)

\* Calls to the vesting contract.  Schedules are drawn so that they end
\* within the modelled horizon (start_time + total_duration <= MaxTime).
VestingInitialize == \E admin \in Admins : vesting_initialize(admin)

CreateSchedule ==
    /\ schedule_count < Cardinality(ScheduleIds)
    /\ \E grantor \in Addr, beneficiary \in Addr, total_amount \in Amounts,
          start_time \in Times, cliff_duration \in Times, cliff_amount \in 0..(MaxAmount + 1),
          total_duration \in Times, revocable \in BOOLEAN :
          /\ start_time + total_duration <= MaxTime
          /\ create_schedule(grantor, beneficiary, total_amount, start_time,
                             cliff_duration, cliff_amount, total_duration, revocable)

VestingClaim == \E beneficiary \in Addr, schedule_id \in ScheduleIds :
                   vesting_claim(beneficiary, schedule_id)

Revoke == \E grantor \in Addr, schedule_id \in ScheduleIds :
             revoke(grantor, schedule_id)

\* The two contracts keep separate storage and neither calls the other, so
\* each run exercises one of them: a contract is called only while the
\* other one has never been initialized.
Next ==
    \/ Tick
    \/ (~vesting_has_admin /\ StreamInitialize)
    \/ (~vesting_has_admin /\ CreateStream)
    \/ (~vesting_has_admin /\ CreateBatchStreams)
    \/ (~vesting_has_admin /\ StreamClaim)
    \/ (~vesting_has_admin /\ CancelStream)
    \/ (~stream_has_admin /\ VestingInitialize)
    \/ (~stream_has_admin /\ CreateSchedule)
    \/ (~stream_has_admin /\ VestingClaim)
    \/ (~stream_has_admin /\ Revoke)

Spec == Init /\ [][Next]_vars

\* ------------------------------------------------- two vesting schedules
\* Runs with two vesting schedules side by side.  The schedules are created
\* at a fixed start with the whole of MaxAmount granted, so that the number
\* of pairs stays small; the payroll_stream calls are those of Next.
PairIds == {0, 1}

CreateSchedulePair ==
    /\ schedule_count < Cardinality(PairIds)
    /\ \E grantor \in Addr, beneficiary \in Addr,
          cliff_duration \in {0, 1}, cliff_amount \in {0, 1},
          total_duration \in {2, MaxTime}, revocable \in BOOLEAN :
          /\ grantor # beneficiary
          /\ create_schedule(grantor, beneficiary, MaxAmount, 0,
                          cliff_duration, cliff_amount, total_duration, revocable)

VestingClaimPair == \E beneficiary \in Addr, schedule_id \in PairIds :
                       vesting_claim(beneficiary, schedule_id)

RevokePair == \E grantor \in Addr, schedule_id \in PairIds :
                 revoke(grantor, schedule_id)

NextPairs ==
    \/ Tick
    \/ (~vesting_has_admin /\ StreamInitialize)
    \/ (~vesting_has_admin /\ CreateStream)
    \/ (~vesting_has_admin /\ CreateBatchStreams)
    \/ (~vesting_has_admin /\ StreamClaim)
    \/ (~vesting_has_admin /\ CancelStream)
    \/ (~stream_has_admin /\ VestingInitialize)
    \/ (~stream_has_admin /\ CreateSchedulePair)
    \/ (~stream_has_admin /\ VestingClaimPair)
    \/ (~stream_has_admin /\ RevokePair)

SpecPairs == Init /\ [][NextPairs]_vars

\* ---------------------------------------------------------------- queries
\* A query entry point that returned Ok: the call is recorded in last with the
\* amount it returned; storage, balances and the clock are not written.
query_returns(op, key, id, amount) ==
    /\ last' = Outcome(op, key, id, amount, 0, 0)
    /\ UNCHANGED <<now, stream_vars, vesting_vars, treasury_vars, governance_vars>>

\* get_stream(stream_id): the stored record, or StreamNotFound.
get_stream_call(stream_id) ==
    IF ~has_stream(stream_id)
    THEN UNCHANGED vars
    ELSE query_returns("get_stream", "none", stream_id, streams[stream_id].claimed_amount)

\* A get_claimable that settles the stream as it reads it.
get_claimable_call_settling(stream_id) ==
    IF ~has_stream(stream_id)
    THEN UNCHANGED vars
    ELSE /\ last' = Outcome("get_claimable", "none", stream_id, get_claimable(stream_id), 0, 0)
         /\ streams' = [streams EXCEPT ![stream_id].claimed_amount = @ + get_claimable(stream_id)]
         /\ UNCHANGED <<now, stream_admin, stream_count, sender_streams, recipient_streams, balance, stream_out, vesting_vars, treasury_vars, governance_vars>>

\* get_claimable(stream_id): calculate_claimable of the stored record.
get_claimable_call(stream_id) ==
    IF ~has_stream(stream_id)
    THEN UNCHANGED vars
    ELSE query_returns("get_claimable", "none", stream_id, get_claimable(stream_id))

\* get_streams_by_sender(sender) / get_streams_by_recipient(recipient)
get_streams_by_sender_call(sender) == query_returns("get_streams_by_sender", sender, 0, Len(sender_streams[sender]))
get_streams_by_recipient_call(recipient) == query_returns("get_streams_by_recipient", recipient, 0, Len(recipient_streams[recipient]))

\* get_schedule(schedule_id): the stored record, or ScheduleNotFound.
get_schedule_call(schedule_id) ==
    IF ~has_schedule(schedule_id)
    THEN UNCHANGED vars
    ELSE query_returns("get_schedule", "none", schedule_id, schedules[schedule_id].claimed_amount)

\* get_progress(schedule_id): the progress of the stored record, or ScheduleNotFound.
get_progress_call(schedule_id) ==
    IF ~has_schedule(schedule_id)
    THEN UNCHANGED vars
    ELSE query_returns("get_progress", "none", schedule_id, get_progress(schedule_id).claimable_amount)

\* get_schedules_by_grantor(grantor) / get_schedules_by_beneficiary(beneficiary)
get_schedules_by_grantor_call(grantor) == query_returns("get_schedules_by_grantor", grantor, 0, Len(grantor_schedules[grantor]))
get_schedules_by_beneficiary_call(beneficiary) == query_returns("get_schedules_by_beneficiary", beneficiary, 0, Len(beneficiary_schedules[beneficiary]))

GetStream == \E stream_id \in StreamIds : get_stream_call(stream_id)
GetClaimable == \E stream_id \in StreamIds : get_claimable_call(stream_id)
GetStreamsBySender == \E sender \in Addr : get_streams_by_sender_call(sender)
GetStreamsByRecipient == \E recipient \in Addr : get_streams_by_recipient_call(recipient)
GetSchedule == \E schedule_id \in ScheduleIds : get_schedule_call(schedule_id)
GetProgress == \E schedule_id \in ScheduleIds : get_progress_call(schedule_id)
GetSchedulesByGrantor == \E grantor \in Addr : get_schedules_by_grantor_call(grantor)
GetSchedulesByBeneficiary == \E beneficiary \in Addr : get_schedules_by_beneficiary_call(beneficiary)

\* create_stream of the full amount, starting at the current ledger time.
CreateStreamNow ==
    /\ stream_count < Cardinality(StreamIds)
    /\ \E sender \in Addr, recipient \in Addr, end_time \in Times :
          /\ sender # recipient
          /\ create_stream(sender, recipient, MaxAmount, now, end_time)

\* create_schedule of the full amount, starting at time 0.
CreateScheduleNow ==
    /\ schedule_count < Cardinality(ScheduleIds)
    /\ \E grantor \in Addr, beneficiary \in Addr,
          cliff_duration \in {0, 1}, cliff_amount \in {0, 1},
          total_duration \in {2, MaxTime}, revocable \in BOOLEAN :
          /\ grantor # beneficiary
          /\ create_schedule(grantor, beneficiary, MaxAmount, 0, cliff_duration, cliff_amount, total_duration, revocable)

\* The contract calls, with the query entry points beside them.
NextQueries ==
    \/ Tick
    \/ (~vesting_has_admin /\ StreamInitialize)
    \/ (~vesting_has_admin /\ CreateStreamNow)
    \/ (~vesting_has_admin /\ StreamClaim)
    \/ (~vesting_has_admin /\ CancelStream)
    \/ (stream_has_admin /\ GetStream)
    \/ (stream_has_admin /\ GetClaimable)
    \/ (stream_has_admin /\ GetStreamsBySender)
    \/ (stream_has_admin /\ GetStreamsByRecipient)
    \/ (~stream_has_admin /\ VestingInitialize)
    \/ (~stream_has_admin /\ CreateScheduleNow)
    \/ (~stream_has_admin /\ VestingClaim)
    \/ (~stream_has_admin /\ Revoke)
    \/ (vesting_has_admin /\ GetSchedule)
    \/ (vesting_has_admin /\ GetProgress)
    \/ (vesting_has_admin /\ GetSchedulesByGrantor)
    \/ (vesting_has_admin /\ GetSchedulesByBeneficiary)

SpecQueries == Init /\ [][NextQueries]_vars

\* ------------------------------------------------------- treasury calls
\* The signer lists and thresholds initialize is called with: every list of
\* up to as many entries as there are addresses, repeated entries included,
\* in one order of its entries (no check depends on the order).
SignerRank == [a \in SignerAddr |-> IF a = "a1" THEN 1 ELSE IF a = "a2" THEN 2 ELSE 3]
SignerLists == UNION {{l \in [1..n -> SignerAddr] : \A i \in 1..n, j \in 1..n : i < j => SignerRank[l[i]] <= SignerRank[l[j]]} : n \in 0..Cardinality(SignerAddr)}
Thresholds == 0..(Cardinality(SignerAddr) + 1)
TreasuryCallers == Admins \cup SignerAddr

TreasuryInitialize == \E admin \in Admins, new_signers \in SignerLists, new_threshold \in Thresholds : treasury_initialize(admin, new_signers, new_threshold)
Deposit == \E from \in SignerAddr, amount \in {0, 1} : deposit(from, amount)
CreateWithdrawal ==
    /\ proposal_count < Cardinality(ProposalIds)
    /\ \E proposer \in SignerAddr, recipient \in Addr, amount \in {0, MaxAmount} : create_withdrawal(proposer, recipient, amount)
ApproveWithdrawal == \E signer \in SignerAddr, proposal_id \in ProposalIds : approve_withdrawal(signer, proposal_id)
ExecuteWithdrawal == \E executor \in SignerAddr, proposal_id \in ProposalIds : execute_withdrawal(executor, proposal_id)
AddSigner == \E admin \in TreasuryCallers, new_signer \in SignerAddr : add_signer(admin, new_signer)
RemoveSigner == \E admin \in TreasuryCallers, signer \in SignerAddr : remove_signer(admin, signer)
UpdateThreshold == \E admin \in TreasuryCallers, new_threshold \in Thresholds : update_threshold(admin, new_threshold)
Mint == \E amount \in {MaxAmount} : mint(amount)

NextTreasury ==
    \/ TreasuryInitialize
    \/ Deposit
    \/ CreateWithdrawal
    \/ ApproveWithdrawal
    \/ ExecuteWithdrawal
    \/ AddSigner
    \/ RemoveSigner
    \/ UpdateThreshold
    \/ Mint

SpecTreasury == Init /\ [][NextTreasury]_vars

\* ------------------------------------------------- the three contracts
\* payroll_stream, vesting and treasury side by side, one of them in use in
\* a run.  The treasury only stores the ledger time (created_at) and reads it
\* nowhere, so the clock is advanced in the runs of the other two.
NextContracts ==
    \/ (~treasury_has_admin /\ (stream_has_admin \/ vesting_has_admin) /\ Tick)
    \/ (~vesting_has_admin /\ ~treasury_has_admin /\ StreamInitialize)
    \/ (~vesting_has_admin /\ ~treasury_has_admin /\ CreateStreamNow)
    \/ (~vesting_has_admin /\ ~treasury_has_admin /\ StreamClaim)
    \/ (~vesting_has_admin /\ ~treasury_has_admin /\ CancelStream)
    \/ (~stream_has_admin /\ ~treasury_has_admin /\ VestingInitialize)
    \/ (~stream_has_admin /\ ~treasury_has_admin /\ CreateScheduleNow)
    \/ (~stream_has_admin /\ ~treasury_has_admin /\ VestingClaim)
    \/ (~stream_has_admin /\ ~treasury_has_admin /\ Revoke)
    \/ (~stream_has_admin /\ ~vesting_has_admin /\ NextTreasury)

SpecContracts == Init /\ [][NextContracts]_vars

\* ----------------------------------------------------- governance calls
\* The member lists, quorum percentages and voting durations initialize is
\* called with (lists in one order of their entries, repeated entries
\* included), and the choices of a vote.
MemberLists == UNION {{l \in [1..n -> Addr] : \A i \in 1..n, j \in 1..n : i < j => SignerRank[l[i]] <= SignerRank[l[j]]} : n \in 0..Cardinality(Addr)}
QuorumPercentages == {51, 100}
VotingDurations == {0, 1}
VoteChoices == {"Yes", "No", "Abstain"}
GovernanceIds == {0}
GovernanceCallers == Admins \cup Addr

GovernanceInitialize == \E admin \in Admins, new_members \in MemberLists, quorum \in QuorumPercentages, duration \in VotingDurations : governance_initialize(admin, new_members, quorum, duration)
CreateProposal ==
    /\ governance_count < Cardinality(GovernanceIds)
    /\ \E proposer \in Addr, amount \in {0, MaxAmount}, recipient \in {"a1"} : create_proposal(proposer, amount, recipient)
Vote == \E voter \in Addr, proposal_id \in GovernanceIds, choice \in VoteChoices : vote(voter, proposal_id, choice)
Finalize == \E caller \in GovernanceCallers, proposal_id \in GovernanceIds : finalize(caller, proposal_id)
Execute == \E admin \in GovernanceCallers, proposal_id \in GovernanceIds : execute(admin, proposal_id)
CancelProposal == \E proposer \in Addr, proposal_id \in GovernanceIds : cancel_proposal(proposer, proposal_id)
AddMember == \E admin \in GovernanceCallers, new_member \in Addr : add_member(admin, new_member)
RemoveMember == \E admin \in GovernanceCallers, member \in Addr : remove_member(admin, member)

NextGovernance ==
    \/ Tick
    \/ GovernanceInitialize
    \/ CreateProposal
    \/ Vote
    \/ Finalize
    \/ Execute
    \/ CancelProposal
    \/ AddMember
    \/ RemoveMember

SpecGovernance == Init /\ [][NextGovernance]_vars

\* ============================================== payroll_stream at i128 width
\* The amounts of payroll_stream are i128.  The calls above are made with
\* amounts far below the width; here the width is I128Bits bits, so that
\* I128Max stands for i128::MAX (2^127 - 1) and an amount can come near it.
I128Bits == 4
I128Max == 2^(I128Bits - 1) - 1

\* The two's-complement value a product takes in a build without overflow
\* checks.
wrapping_mul(a, b) == (((a * b) + I128Max + 1) % (2 * (I128Max + 1))) - (I128Max + 1)

\* calculate_claimable at ledger time t reaches
\* `stream.total_amount * (elapsed as i128)` and the product exceeds i128::MAX.
mul_overflows(t, stream) ==
    /\ t > stream.start_time
    /\ stream.end_time > stream.start_time
    /\ LET effective_time == IF t >= stream.end_time THEN stream.end_time ELSE t
       IN  stream.total_amount * (effective_time - stream.start_time) > I128Max

\* calculate_claimable in a build without overflow checks: the product wraps.
calculate_claimable_wrapping(t, stream) ==
    IF t <= stream.start_time THEN 0
    ELSE LET effective_time == IF t >= stream.end_time THEN stream.end_time ELSE t
             elapsed == effective_time - stream.start_time
         IN  IF stream.end_time <= stream.start_time THEN 0
             ELSE LET duration == stream.end_time - stream.start_time
                      computed == TruncDiv(wrapping_mul(stream.total_amount, elapsed), duration)
                      total_accrued == IF computed > stream.total_amount
                                          THEN stream.total_amount
                                          ELSE computed
                  IN  IF total_accrued < stream.claimed_amount THEN 0
                      ELSE total_accrued - stream.claimed_amount

\* claim(recipient, stream_id) at i128 width.  When the product overflows the
\* call panics (overflow checks on: nothing is written) or goes on with the
\* wrapped product (overflow checks off).
claim_wide(recipient, stream_id) ==
    IF stream_claim_result(recipient, stream_id) \in {"Ok", "NothingToClaim"} /\ mul_overflows(now, streams[stream_id])
    THEN \/ UNCHANGED vars
         \/ LET stream == streams[stream_id]
                claimable == calculate_claimable_wrapping(now, stream)
                claimed == stream.claimed_amount + claimable
            IN  IF claimable <= 0
                THEN UNCHANGED vars
                ELSE /\ streams' = set_record(streams, stream_id, [stream EXCEPT !.claimed_amount = claimed, !.last_claim_time = now, !.status = IF claimed >= stream.total_amount THEN "Completed" ELSE @])
                     /\ balance' = transfer(balance, ContractAddr, recipient, claimable)
                     /\ stream_out' = [stream_out EXCEPT ![stream_id].to_recipient = @ + claimable]
                     /\ last' = Outcome("stream_claim", recipient, stream_id, claimable, claimable, 0)
                     /\ UNCHANGED <<now, stream_admin, stream_count, sender_streams, recipient_streams, vesting_vars, treasury_vars, governance_vars>>
    ELSE stream_claim(recipient, stream_id)

\* cancel_stream(sender, stream_id) at i128 width, in the same way.
cancel_stream_wide(sender, stream_id) ==
    IF cancel_stream_result(sender, stream_id) = "Ok" /\ mul_overflows(now, streams[stream_id])
    THEN \/ UNCHANGED vars
         \/ LET stream == streams[stream_id]
                claimable == calculate_claimable_wrapping(now, stream)
                refund == stream.total_amount - stream.claimed_amount - claimable
                to_recipient == IF claimable > 0 THEN claimable ELSE 0
                to_sender == IF refund > 0 THEN refund ELSE 0
            IN  /\ streams' = set_record(streams, stream_id, [stream EXCEPT !.status = "Cancelled"])
                /\ balance' = transfer(transfer(balance, ContractAddr, stream.recipient, to_recipient), ContractAddr, sender, to_sender)
                /\ stream_out' = [stream_out EXCEPT ![stream_id].to_recipient = @ + to_recipient, ![stream_id].to_sender = @ + to_sender]
                /\ last' = Outcome("cancel_stream", sender, stream_id, 0, to_recipient, to_sender)
                /\ UNCHANGED <<now, stream_admin, stream_count, sender_streams, recipient_streams, vesting_vars, treasury_vars, governance_vars>>
    ELSE cancel_stream(sender, stream_id)

\* get_claimable(stream_id) at i128 width, in the same way.
get_claimable_wide(stream_id) ==
    IF has_stream(stream_id) /\ mul_overflows(now, streams[stream_id])
    THEN \/ UNCHANGED vars
         \/ query_returns("get_claimable", "none", stream_id, calculate_claimable_wrapping(now, streams[stream_id]))
    ELSE get_claimable_call(stream_id)

\* The amounts create_stream is called with: the least and the greatest i128
\* it accepts.
WideAmounts == {1, I128Max}

\* One sender holds the whole supply of a token, i128::MAX.
InitWide ==
    /\ now = 0
    /\ stream_admin = "none"
    /\ stream_count = 0
    /\ streams = <<>>
    /\ sender_streams = [a \in Addr |-> <<>>]
    /\ recipient_streams = [a \in Addr |-> <<>>]
    /\ balance = [a \in Addr \cup {ContractAddr} |-> IF a = "a1" THEN I128Max ELSE 0]
    /\ stream_out = <<>>
    /\ vesting_admin = "none"
    /\ schedule_count = 0
    /\ schedules = <<>>
    /\ grantor_schedules = [a \in Addr |-> <<>>]
    /\ beneficiary_schedules = [a \in Addr |-> <<>>]
    /\ claim_history = [id \in ScheduleIds |-> <<>>]
    /\ vesting_out = <<>>
    /\ treasury_admin = "none"
    /\ signers = <<>>
    /\ threshold = 0
    /\ proposal_count = 0
    /\ withdrawals = <<>>
    /\ treasury_balance = 0
    /\ treasury_received = [a \in SignerAddr |-> 0]
    /\ governance_admin = "none"
    /\ members = <<>>
    /\ quorum_percentage = 0
    /\ voting_duration = 0
    /\ governance_count = 0
    /\ proposals = <<>>
    /\ last = NoCall

CreateStreamWide ==
    /\ stream_count < Cardinality(StreamIds)
    /\ \E sender \in Addr, recipient \in Addr, total_amount \in WideAmounts, start_time \in Times, end_time \in Times :
          create_stream(sender, recipient, total_amount, start_time, end_time)

ClaimWide == \E recipient \in Addr, stream_id \in StreamIds : claim_wide(recipient, stream_id)

CancelStreamWide == \E sender \in Addr, stream_id \in StreamIds : cancel_stream_wide(sender, stream_id)

GetClaimableWide == \E stream_id \in StreamIds : get_claimable_wide(stream_id)

NextWide ==
    \/ Tick
    \/ StreamInitialize
    \/ CreateStreamWide
    \/ ClaimWide
    \/ CancelStreamWide
    \/ GetClaimableWide

SpecWide == InitWide /\ [][NextWide]_vars

\* ================================================================ claims
\* The accrual formulas as the specification states them.
Max0(x) == IF x > 0 THEN x ELSE 0

\* Continuous stream: 0 up to start_time, total_amount from end_time on,
\* otherwise floor(total_amount * (t - start_time) / (end_time - start_time)).
StreamAccrued(t, s) ==
    IF t <= s.start_time THEN 0
    ELSE IF t >= s.end_time THEN s.total_amount
    ELSE (s.total_amount * (t - s.start_time)) \div (s.end_time - s.start_time)

\* Cliff vesting: 0 before the cliff instant, total_amount from the end on,
\* otherwise cliff_amount plus the truncated linear share of the remainder.
VestingAccrued(t, s) ==
    IF t < s.start_time + s.cliff_duration THEN 0
    ELSE IF t >= s.start_time + s.total_duration THEN s.total_amount
    ELSE s.cliff_amount
         + TruncDiv((s.total_amount - s.cliff_amount)
                        * (t - s.start_time - s.cliff_duration),
                    s.total_duration - s.cliff_duration)

\* What the engine reports as accrued for a stored stream at time t.
stream_accrued_at(t, s) == calculate_claimable(t, s) + s.claimed_amount

StreamTerminal(s) == s.status \in {"Completed", "Cancelled"}
ScheduleTerminal(s) == s.status \in {"FullyClaimed", "Revoked"}

\* ---- C1
C1_Range ==
    /\ \A id \in DOMAIN streams :
          0 <= streams[id].claimed_amount
          /\ streams[id].claimed_amount <= streams[id].total_amount
    /\ \A id \in DOMAIN schedules :
          0 <= schedules[id].claimed_amount
          /\ schedules[id].claimed_amount <= schedules[id].total_amount

C1_Step ==
    /\ \A id \in DOMAIN streams' :
          IF id \in DOMAIN streams
          THEN streams'[id].claimed_amount >= streams[id].claimed_amount
          ELSE streams'[id].claimed_amount = 0
    /\ \A id \in DOMAIN schedules' :
          IF id \in DOMAIN schedules
          THEN schedules'[id].claimed_amount >= schedules[id].claimed_amount
          ELSE schedules'[id].claimed_amount = 0

\* C1: for every stream and every vesting schedule, in every reachable state,
\* 0 <= claimed_amount <= total_amount (the record's current total, also after
\* revoke has capped it); claimed_amount is 0 in the step that creates the
\* record and no step decreases it.
C1_ClaimedWithinTotal == [](C1_Range) /\ [][C1_Step]_vars

\* C1 witness: a revoked schedule whose total was capped below the grant, with
\* a claim made before the revoke.
C1_Witness ==
    \E id \in DOMAIN schedules :
        /\ schedules[id].status = "Revoked"
        /\ schedules[id].claimed_amount > 0
        /\ schedules[id].total_amount < vesting_out[id].granted

\* ---- C2
C2_Step ==
    (last'.op = "cancel_stream") =>
        LET s == streams[last'.id]
            accrued == StreamAccrued(now, s)
            to_recipient == accrued - s.claimed_amount
            to_sender == s.total_amount - accrued
        IN  /\ last'.to_recipient = to_recipient
            /\ last'.to_sender = to_sender
            /\ balance'[s.recipient] = balance[s.recipient] + to_recipient
            /\ balance'[s.sender] = balance[s.sender] + to_sender
            /\ balance'[ContractAddr] = balance[ContractAddr] - to_recipient - to_sender
            /\ to_recipient + to_sender + s.claimed_amount = s.total_amount
            /\ (now <= s.start_time => to_recipient = 0 /\ to_sender = s.total_amount)
            /\ (now >= s.end_time =>
                    to_sender = 0 /\ to_recipient = s.total_amount - s.claimed_amount)

\* C2: a cancel_stream that succeeds at ledger time T sends the recipient
\* exactly accrued(T) - claimed_amount and the sender exactly total_amount -
\* accrued(T); the two transfers and claimed_amount add up to total_amount; a
\* cancel at or before start_time refunds everything, a cancel at or after
\* end_time gives the whole unclaimed remainder to the recipient.
C2_CancelSettlement == [][C2_Step]_vars

\* C2 witness: a cancel after a partial claim that paid both parties.
C2_Witness ==
    /\ last.op = "cancel_stream"
    /\ last.to_recipient > 0
    /\ last.to_sender > 0
    /\ streams[last.id].claimed_amount > 0

\* ---- C3
\* C3: for every stream and vesting schedule, what was paid to the recipient
\* plus what was refunded to the sender never exceeds the creation-time
\* total_amount, and equals it once the schedule is terminal.  (For vesting the
\* amounts are those claim and revoke return; the source transfers no token.)
C3_Conservation ==
    /\ \A id \in DOMAIN streams :
          /\ stream_out[id].to_recipient + stream_out[id].to_sender
                <= stream_out[id].escrowed
          /\ StreamTerminal(streams[id]) =>
                stream_out[id].to_recipient + stream_out[id].to_sender
                    = stream_out[id].escrowed
    /\ \A id \in DOMAIN schedules :
          /\ vesting_out[id].claimed + vesting_out[id].unvested
                <= vesting_out[id].granted
          /\ ScheduleTerminal(schedules[id]) =>
                vesting_out[id].claimed + vesting_out[id].unvested
                    = vesting_out[id].granted

\* ---- C4
\* C4: right after a claim that succeeded, with the clock unchanged and no
\* other call committed in between, a second claim by the same caller on the
\* same id fails with NothingToClaim (or with the terminal-status error when
\* the first claim completed the schedule) and nothing is claimable; a call
\* that fails commits nothing.
C4_NoDoublePayment ==
    /\ (last.op = "stream_claim") =>
          /\ stream_claim_result(last.caller, last.id)
                \in {"NothingToClaim", "StreamCompleted"}
          /\ get_claimable(last.id) = 0
    /\ (last.op = "vesting_claim") =>
          /\ vesting_claim_result(last.caller, last.id)
                \in {"NothingToClaim", "AlreadyFullyClaimed"}
          /\ get_progress(last.id).claimable_amount = 0

\* C4 witness: a stream claim has just succeeded and the stream is still
\* Active, so the second claim meets the NothingToClaim check.
C4_Witness ==
    /\ last.op = "stream_claim"
    /\ last.amount > 0
    /\ streams[last.id].status = "Active"
    /\ stream_claim_result(last.caller, last.id) = "NothingToClaim"

\* ---- C5
\* C5: for every stored record held fixed, the accrued amount is monotone in
\* the query time (stream: calculate_claimable + claimed_amount; vesting:
\* calculate_vested, the vested_amount of get_progress).
C5_Monotonic ==
    \A t1 \in Times, t2 \in Times :
        (t1 <= t2) =>
            /\ \A id \in DOMAIN streams :
                  stream_accrued_at(t1, streams[id]) <= stream_accrued_at(t2, streams[id])
            /\ \A id \in DOMAIN schedules :
                  progress_at(t1, schedules[id]).vested_amount
                      <= progress_at(t2, schedules[id]).vested_amount

\* ---- C6
\* C6: for every stored record and every query time, the accrued amount lies
\* in [0, total_amount] of the record; get_progress never reports
\* vested_amount > total_amount.
C6_WithinTotal ==
    \A t \in Times :
        /\ \A id \in DOMAIN streams :
              /\ 0 <= stream_accrued_at(t, streams[id])
              /\ stream_accrued_at(t, streams[id]) <= streams[id].total_amount
        /\ \A id \in DOMAIN schedules :
              /\ 0 <= progress_at(t, schedules[id]).vested_amount
              /\ progress_at(t, schedules[id]).vested_amount
                    <= progress_at(t, schedules[id]).total_amount

\* ---- C7
\* A record as create wrote it: Active and nothing claimed.
AsCreated(rec) == rec.status = "Active" /\ rec.claimed_amount = 0

\* C7 as stated: for every record as created, accrued is 0 at start_time and
\* total_amount at end_time (stream) or start_time + total_duration (vesting).
C7_Boundary ==
    /\ \A id \in DOMAIN streams :
          AsCreated(streams[id]) =>
              /\ stream_accrued_at(streams[id].start_time, streams[id]) = 0
              /\ stream_accrued_at(streams[id].end_time, streams[id])
                    = streams[id].total_amount
    /\ \A id \in DOMAIN schedules :
          AsCreated(schedules[id]) =>
              /\ calculate_vested(schedules[id].start_time, schedules[id]) = 0
              /\ calculate_vested(schedules[id].start_time + schedules[id].total_duration,
                                  schedules[id]) = schedules[id].total_amount

\* C7 amended: as C7, except that a vesting schedule with cliff_duration = 0
\* has its cliff instant at start_time, where cliff_amount is already vested.
C7_BoundaryAmended ==
    /\ \A id \in DOMAIN streams :
          AsCreated(streams[id]) =>
              /\ stream_accrued_at(streams[id].start_time, streams[id]) = 0
              /\ stream_accrued_at(streams[id].end_time, streams[id])
                    = streams[id].total_amount
    /\ \A id \in DOMAIN schedules :
          AsCreated(schedules[id]) =>
              /\ calculate_vested(schedules[id].start_time, schedules[id])
                    = IF schedules[id].cliff_duration = 0
                         THEN schedules[id].cliff_amount
                         ELSE 0
              /\ calculate_vested(schedules[id].start_time + schedules[id].total_duration,
                                  schedules[id]) = schedules[id].total_amount

\* C7 witness: an accepted schedule with cliff_duration = 0 and cliff_amount > 0,
\* queried at its start_time.
C7_Witness ==
    \E id \in DOMAIN schedules :
        /\ AsCreated(schedules[id])
        /\ schedules[id].cliff_duration = 0
        /\ schedules[id].cliff_amount > 0
        /\ now = schedules[id].start_time
        /\ get_progress(id).vested_amount = schedules[id].cliff_amount

\* ---- C8
\* C8: for every stream and every ledger time, get_claimable is
\* max(0, A - claimed_amount) with A the accrual recomputed from total_amount
\* and the full duration (never from the stored rate_per_second).
C8_ClaimableFormula ==
    \A id \in DOMAIN streams :
        /\ get_claimable(id)
              = Max0(StreamAccrued(now, streams[id]) - streams[id].claimed_amount)
        /\ \A t \in Times :
              calculate_claimable(t, streams[id])
                  = Max0(StreamAccrued(t, streams[id]) - streams[id].claimed_amount)

\* C8 witness: inside the interval, with a total that the duration does not
\* divide, so that the stored rate would give another amount.
C8_Witness ==
    \E id \in DOMAIN streams :
        /\ streams[id].start_time < now /\ now < streams[id].end_time
        /\ get_claimable(id) > 0
        /\ get_claimable(id) + streams[id].claimed_amount
              # streams[id].rate_per_second * (now - streams[id].start_time)

\* ---- C9
\* C9: for every Active vesting schedule and every ledger time, the vested
\* amount is 0 before the cliff instant, total_amount from start_time +
\* total_duration on, and cliff_amount plus the truncated linear share of the
\* remainder in between; at the cliff instant it is exactly cliff_amount.
C9_VestedFormula ==
    \A id \in DOMAIN schedules :
        (schedules[id].status = "Active") =>
            /\ get_progress(id).vested_amount = VestingAccrued(now, schedules[id])
            /\ \A t \in Times :
                  calculate_vested(t, schedules[id]) = VestingAccrued(t, schedules[id])
            /\ calculate_vested(schedules[id].start_time + schedules[id].cliff_duration,
                                schedules[id]) = schedules[id].cliff_amount

\* C9 witness: an Active schedule at its cliff instant, where cliff_amount is
\* more than the time-proportional share.
C9_Witness ==
    \E id \in DOMAIN schedules :
        /\ schedules[id].status = "Active"
        /\ schedules[id].cliff_duration > 0
        /\ now = schedules[id].start_time + schedules[id].cliff_duration
        /\ get_progress(id).vested_amount = schedules[id].cliff_amount
        /\ schedules[id].cliff_amount
              > TruncDiv(schedules[id].total_amount * schedules[id].cliff_duration,
                         schedules[id].total_duration)

\* ---- C10
\* C10: after any sequence of successful claims on a stream, the last one at
\* time T (last_claim_time), claimed_amount equals accrued(T), whatever the
\* number and times of the earlier claims; until a cancel settles the stream,
\* the recipient's receipts from it equal claimed_amount.
C10_PathIndependent ==
    \A id \in DOMAIN streams :
        /\ streams[id].claimed_amount
              = StreamAccrued(streams[id].last_claim_time, streams[id])
        /\ (streams[id].status # "Cancelled") =>
              stream_out[id].to_recipient = streams[id].claimed_amount

\* C10 witness: a claim has just succeeded on a stream that was claimed
\* before, at an earlier time, and the stream is still Active.
C10_Witness ==
    /\ last.op = "stream_claim"
    /\ streams[last.id].status = "Active"
    /\ last.amount > 0
    /\ last.amount < streams[last.id].claimed_amount
    /\ streams[last.id].last_claim_time = now
\* ---- C11
\* C11: for an Active stream at now >= end_time the recipient's claim returns
\* Ok, pays total_amount - claimed_amount and writes back claimed_amount =
\* total_amount with status Completed; for an Active vesting schedule at
\* now >= start_time + total_duration the beneficiary's claim returns Ok and
\* writes back status FullyClaimed with everything claimed; a claim that was
\* just made at or after the end left the record so; and no record is
\* Completed / FullyClaimed while claimed_amount < total_amount.
C11_CompletesAtEnd ==
    /\ \A id \in DOMAIN streams :
          LET s == streams[id]
          IN  /\ (s.status = "Active" /\ now >= s.end_time) =>
                    /\ stream_claim_result(s.recipient, id) = "Ok"
                    /\ calculate_claimable(now, s) = s.total_amount - s.claimed_amount
                    /\ stream_after_claim(now, s).claimed_amount = s.total_amount
                    /\ stream_after_claim(now, s).status = "Completed"
              /\ (s.status = "Completed") => s.claimed_amount = s.total_amount
    /\ \A id \in DOMAIN schedules :
          LET s == schedules[id]
          IN  /\ (s.status = "Active" /\ now >= s.start_time + s.total_duration) =>
                    /\ vesting_claim_result(s.beneficiary, id) = "Ok"
                    /\ schedule_after_claim(now, s).claimed_amount = s.total_amount
                    /\ schedule_after_claim(now, s).status = "FullyClaimed"
              /\ (s.status = "FullyClaimed") => s.claimed_amount = s.total_amount
    /\ (last.op = "stream_claim" /\ now >= streams[last.id].end_time) =>
          /\ streams[last.id].status = "Completed"
          /\ streams[last.id].claimed_amount = streams[last.id].total_amount
          /\ last.amount = stream_out[last.id].escrowed
                              - (stream_out[last.id].to_recipient - last.amount)
    /\ (last.op = "vesting_claim"
            /\ now >= schedules[last.id].start_time + schedules[last.id].total_duration) =>
          /\ schedules[last.id].status = "FullyClaimed"
          /\ schedules[last.id].claimed_amount = schedules[last.id].total_amount

\* C11 witness: a stream claimed in part before its end and claimed again at
\* its end, which completed it.
C11_Witness ==
    /\ last.op = "stream_claim"
    /\ now >= streams[last.id].end_time
    /\ last.amount > 0
    /\ last.amount < streams[last.id].total_amount
    /\ streams[last.id].status = "Completed"


\* ---- C12
\* What the four calls return to a caller who does not hold the role.
C12_Rejected ==
    /\ \A id \in DOMAIN streams : \A a \in Addr :
          /\ (a # streams[id].recipient) => stream_claim_result(a, id) = "Unauthorized"
          /\ (a # streams[id].sender) => cancel_stream_result(a, id) = "Unauthorized"
    /\ \A id \in DOMAIN schedules : \A a \in Addr :
          /\ (a # schedules[id].beneficiary) => vesting_claim_result(a, id) = "Unauthorized"
          /\ (a # schedules[id].grantor) => revoke_result(a, id) = "Unauthorized"

\* A step that is such a call moves no token and changes no record.
C12_Step ==
    /\ \A id \in DOMAIN streams : \A a \in Addr :
          /\ (a # streams[id].recipient /\ stream_claim(a, id)) =>
                UNCHANGED <<streams, balance, stream_out>>
          /\ (a # streams[id].sender /\ cancel_stream(a, id)) =>
                UNCHANGED <<streams, balance, stream_out>>
    /\ \A id \in DOMAIN schedules : \A a \in Addr :
          /\ (a # schedules[id].beneficiary /\ vesting_claim(a, id)) =>
                UNCHANGED <<schedules, balance, vesting_out>>
          /\ (a # schedules[id].grantor /\ revoke(a, id)) =>
                UNCHANGED <<schedules, balance, vesting_out>>

\* C12: claim by an address other than the recipient / beneficiary, and
\* cancel_stream / revoke by an address other than the sender / grantor,
\* return Unauthorized, transfer nothing and leave the record unchanged.
C12_RoleAuthorization == [](C12_Rejected) /\ [][C12_Step]_vars

\* C12 witness: an Active stream with an amount to claim, so that only the
\* caller's identity stands between the sender and the recipient's tokens.
C12_Witness ==
    \E id \in DOMAIN streams :
        /\ streams[id].status = "Active"
        /\ get_claimable(id) > 0
        /\ stream_claim_result(streams[id].recipient, id) = "Ok"
        /\ stream_claim_result(streams[id].sender, id) = "Unauthorized"


\* ---- C13
\* The error a terminal stream answers with.
C13_StreamError(s) ==
    IF s.status = "Cancelled" THEN "StreamAlreadyCancelled" ELSE "StreamCompleted"

C13_Rejected ==
    /\ \A id \in DOMAIN streams : \A a \in Addr :
          StreamTerminal(streams[id]) =>
             /\ stream_claim_result(a, id) # "Ok"
             /\ cancel_stream_result(a, id) # "Ok"
             /\ stream_claim_result(streams[id].recipient, id) = C13_StreamError(streams[id])
             /\ cancel_stream_result(streams[id].sender, id) = C13_StreamError(streams[id])
    /\ \A id \in DOMAIN schedules : \A a \in Addr :
          ScheduleTerminal(schedules[id]) =>
             /\ vesting_claim_result(a, id) # "Ok"
             /\ vesting_claim_result(schedules[id].beneficiary, id) =
                   (IF schedules[id].status = "Revoked"
                       THEN "ScheduleRevoked" ELSE "AlreadyFullyClaimed")

C13_Step ==
    /\ \A id \in DOMAIN streams : \A a \in Addr :
          (StreamTerminal(streams[id]) /\ (stream_claim(a, id) \/ cancel_stream(a, id))) =>
             UNCHANGED <<streams, balance, stream_out>>
    /\ \A id \in DOMAIN schedules : \A a \in Addr :
          (ScheduleTerminal(schedules[id]) /\ vesting_claim(a, id)) =>
             UNCHANGED <<schedules, balance, vesting_out>>

\* C13: on a Completed or Cancelled stream claim and cancel_stream fail
\* (StreamCompleted / StreamAlreadyCancelled for the role holder), move no
\* token and leave the record unchanged; a vesting claim on a Revoked or
\* FullyClaimed schedule fails likewise.
C13_TerminalRejects == [](C13_Rejected) /\ [][C13_Step]_vars

\* C13 witness: one stream Completed and another Cancelled.
C13_Witness ==
    \E i \in DOMAIN streams, j \in DOMAIN streams :
        /\ streams[i].status = "Completed"
        /\ streams[j].status = "Cancelled"
        /\ cancel_stream_result(streams[i].sender, i) = "StreamCompleted"
        /\ stream_claim_result(streams[j].recipient, j) = "StreamAlreadyCancelled"


\* ---- C14
\* C14: revoke fails whenever the schedule is already terminal (Revoked or
\* FullyClaimed) or was created with revocable = false, and a schedule that
\* is not revocable never has status Revoked.
C14_RevokePreconditions ==
    \A id \in DOMAIN schedules :
        /\ (ScheduleTerminal(schedules[id]) \/ ~schedules[id].revocable) =>
              \A a \in Addr : revoke_result(a, id) # "Ok"
        /\ ~schedules[id].revocable => schedules[id].status # "Revoked"


\* ---- C15
C15_Statuses ==
    /\ \A id \in DOMAIN streams :
          streams[id].status \in {"Active", "Completed", "Cancelled"}
    /\ \A id \in DOMAIN schedules :
          schedules[id].status \in {"Active", "FullyClaimed", "Revoked"}

C15_Step ==
    /\ DOMAIN streams \subseteq DOMAIN streams'
    /\ DOMAIN schedules \subseteq DOMAIN schedules'
    /\ \A id \in DOMAIN streams :
          \/ streams'[id].status = streams[id].status
          \/ /\ streams[id].status = "Active"
             /\ streams'[id].status \in {"Completed", "Cancelled"}
    /\ \A id \in DOMAIN schedules :
          \/ schedules'[id].status = schedules[id].status
          \/ /\ schedules[id].status = "Active"
             /\ schedules'[id].status \in {"FullyClaimed", "Revoked"}

\* C15: a status changes only from Active to Completed / FullyClaimed or from
\* Active to Cancelled / Revoked; the status of a terminal record never
\* changes; no stream is Paused; no record is ever deleted.
C15_Lifecycle == [](C15_Statuses) /\ [][C15_Step]_vars


\* ---- C16
C16_Step ==
    /\ \A id \in DOMAIN streams :
          /\ streams'[id].total_amount = streams[id].total_amount
          /\ StreamTerminal(streams[id]) =>
                streams'[id].claimed_amount = streams[id].claimed_amount
    /\ \A id \in DOMAIN schedules :
          /\ ScheduleTerminal(schedules[id]) =>
                /\ schedules'[id].total_amount = schedules[id].total_amount
                /\ schedules'[id].claimed_amount = schedules[id].claimed_amount
          /\ (schedules'[id].total_amount # schedules[id].total_amount) =>
                /\ schedules[id].status = "Active"
                /\ schedules'[id].status = "Revoked"
                /\ schedules'[id].total_amount < schedules[id].total_amount
                /\ last'.op = "revoke" /\ last'.id = id

\* C16: once a record is terminal no step changes its total_amount or its
\* claimed_amount; a schedule's total_amount changes only in the revoke step
\* that makes it Revoked, and only downward; a stream's total_amount never
\* changes.
C16_TerminalFrame == [][C16_Step]_vars

\* C16 witness: a revoke has just capped a schedule's total below the grant,
\* with part of the grant vested.
C16_Witness ==
    /\ last.op = "revoke"
    /\ schedules[last.id].total_amount > 0
    /\ schedules[last.id].total_amount < vesting_out[last.id].granted
    /\ last.amount > 0


\* ---- C17
\* C17: after a successful revoke at time T, get_progress at every later
\* time reports total_amount = the amount vested at T (the grant less the
\* unvested amount revoke returned) and claimable_amount = 0.
C17_ProgressAfterRevoke ==
    \A id \in DOMAIN schedules :
        (schedules[id].status = "Revoked") =>
           \A t \in now..MaxTime :
              /\ progress_at(t, schedules[id]).total_amount =
                    vesting_out[id].granted - vesting_out[id].unvested
              /\ progress_at(t, schedules[id]).claimable_amount = 0


\* ---- C18
\* C18: after a revoke, what had vested by then and was not yet claimed stays
\* claimable: the beneficiary's next claim returns Ok and pays the amount
\* vested at the revoke less claimed_amount.
C18_ClaimAfterRevoke ==
    \A id \in DOMAIN schedules :
        LET s == schedules[id]
            vested_at_revoke == vesting_out[id].granted - vesting_out[id].unvested
        IN  (s.status = "Revoked" /\ vested_at_revoke > s.claimed_amount) =>
               /\ vesting_claim_result(s.beneficiary, id) = "Ok"
               /\ calculate_vested(now, s) - s.claimed_amount =
                     vested_at_revoke - s.claimed_amount

\* ---- C19
\* The sum over the stored schedules of what the contract should still hold:
\* the grant less the amounts claimed and the amount returned by revoke.
RECURSIVE C19_Held(_)
C19_Held(ids) ==
    IF ids = {} THEN 0
    ELSE LET id == CHOOSE i \in ids : TRUE
         IN  vesting_out[id].granted - vesting_out[id].claimed - vesting_out[id].unvested
             + C19_Held(ids \ {id})

\* C19: the vesting contract holds the tokens of its schedules: in a run of
\* the vesting contract the contract's token balance equals the sum over the
\* schedules of (creation total - amounts claimed - amount refunded).
C19_VestingCustody ==
    vesting_has_admin => balance[ContractAddr] = C19_Held(DOMAIN schedules)


\* ---- C20
\* C20: every successful vesting claim appends one record (the amount it
\* returned, the ledger timestamp) to the schedule's claim history, and no
\* other step touches the history: right after a successful claim the
\* history ends with that claim's record, and in every step the history
\* either stays as it is or is the old one with the claim's record appended.
C20_Recorded ==
    (last.op = "vesting_claim") =>
        /\ Len(get_claim_history(last.id)) >= 1
        /\ get_claim_history(last.id)[Len(get_claim_history(last.id))] =
              [amount |-> last.amount, timestamp |-> now]

C20_Step ==
    \A id \in ScheduleIds :
        IF \E b \in Addr : vesting_claim_result(b, id) = "Ok" /\ vesting_claim(b, id)
        THEN claim_history' =
                add_claim_record(claim_history, id,
                    calculate_vested(now, schedules[id]) - schedules[id].claimed_amount,
                    now)
        ELSE claim_history'[id] = claim_history[id]

C20_ClaimHistory == [](C20_Recorded) /\ [][C20_Step]_vars


\* ---- C21
\* The amounts a creation call is tried with, one below zero included.
C21_Amounts == (-1)..(MaxAmount + 1)

\* In a state in which streams are created (the contract is initialized and
\* an id is free), every create_stream
\* call with an invalid argument is turned away.
C21_StreamRejected ==
    (stream_has_admin /\ stream_count < Cardinality(StreamIds)) =>
        \A sender \in Addr, recipient \in Addr, total_amount \in C21_Amounts,
           start_time \in Times, end_time \in Times :
            (sender = recipient \/ total_amount <= 0 \/ end_time <= start_time
                 \/ start_time < now) =>
               create_stream_result(sender, recipient, total_amount,
                                    start_time, end_time) # "Ok"

\* Likewise for create_schedule.
C21_ScheduleRejected ==
    (vesting_has_admin /\ schedule_count < Cardinality(ScheduleIds)) =>
        \A total_amount \in C21_Amounts, cliff_duration \in Times,
           cliff_amount \in C21_Amounts, total_duration \in Times :
            (total_amount <= 0 \/ cliff_duration >= total_duration
                 \/ cliff_amount < 0 \/ cliff_amount > total_amount) =>
               \A grantor \in Addr, revocable \in BOOLEAN :
                  create_schedule_result(grantor, grantor, total_amount, now,
                      cliff_duration, cliff_amount, total_duration, revocable) # "Ok"

\* The record a creation has just stored.
C21_Created ==
    /\ (last.op = "create_stream") =>
          LET s == streams[last.id]
          IN  /\ s.sender # s.recipient
              /\ s.total_amount > 0
              /\ s.start_time >= now /\ s.end_time > s.start_time
              /\ s.claimed_amount = 0 /\ s.status = "Active"
    /\ (last.op = "create_schedule") =>
          LET s == schedules[last.id]
          IN  /\ s.total_amount > 0
              /\ s.cliff_duration < s.total_duration
              /\ 0 <= s.cliff_amount /\ s.cliff_amount <= s.total_amount
              /\ s.claimed_amount = 0 /\ s.status = "Active"

\* C21: create_stream fails when sender = recipient, total_amount <= 0,
\* end_time <= start_time or start_time < now; create_schedule fails when
\* total_amount <= 0, cliff_duration >= total_duration or cliff_amount is
\* outside [0, total_amount]; so a record, when it is created, has
\* total_amount > 0, a non-empty well-ordered interval, claimed_amount = 0
\* and status Active.
C21_CreationValidation ==
    C21_StreamRejected /\ C21_ScheduleRejected /\ C21_Created

\* C21 witness: a stream created after the clock has advanced, starting at
\* the current time (one second earlier would have been turned away).
C21_Witness ==
    /\ last.op = "create_stream"
    /\ now > 0
    /\ streams[last.id].start_time = now
    /\ create_stream_result(streams[last.id].sender, streams[last.id].recipient, 1,
                            now - 1, now + 1) = "InvalidStartTime"


\* ---- C22
\* Entries a batch is tried with: valid ones and ones that fail a check
\* (recipient = sender, total_amount = 0, end_time = start_time, a start in
\* the past).
C22_Entries ==
    [recipient : Addr, total_amount : {0, 1},
     start_time : {t \in Times : t = now \/ t = now - 1}, end_time : {now, now + 1}]

C22_Invalid(sender, params) ==
    \/ sender = params.recipient
    \/ params.total_amount <= 0
    \/ params.end_time <= params.start_time
    \/ params.start_time < now

C22_Batches ==
    UNION {[1..n -> C22_Entries] : n \in 1..(Cardinality(StreamIds) - stream_count)}

\* A batch with an invalid entry at any position is turned away.
C22_Rejected ==
    stream_has_admin =>
        \A sender \in Addr, entries \in C22_Batches :
            (\E i \in 1..Len(entries) : C22_Invalid(sender, entries[i])) =>
               create_batch_streams_result(sender, entries) # "Ok"

\* A step that changes the count, a record, an index list or a balance is
\* not a batch call with an invalid entry.
C22_Step ==
    (stream_has_admin /\ stream_count < Cardinality(StreamIds)
        /\ <<stream_count, streams, sender_streams, recipient_streams, balance>>'
              # <<stream_count, streams, sender_streams, recipient_streams, balance>>) =>
       ~ \E sender \in Addr, entries \in C22_Batches :
            /\ \E i \in 1..Len(entries) : C22_Invalid(sender, entries[i])
            /\ create_batch_streams(sender, entries)

\* C22: create_batch_streams is all-or-nothing: when any entry, at any
\* position, is invalid the call fails and the stream count, the stream
\* records, the index lists and the balances are as before the call.
C22_BatchAllOrNothing == [](C22_Rejected) /\ [][C22_Step]_vars

\* C22 witness: a state in which a batch whose first entry is valid and whose
\* second entry is not is turned away, while its first entry alone is accepted.
C22_Witness ==
    \E sender \in Addr, entries \in C22_Batches :
        /\ Len(entries) = 2
        /\ ~C22_Invalid(sender, entries[1])
        /\ C22_Invalid(sender, entries[2])
        /\ create_batch_streams_result(sender, <<entries[1]>>) = "Ok"
        /\ create_batch_streams_result(sender, entries) = "InvalidAmount"


\* ---- C23
C23_Ids ==
    /\ DOMAIN streams = 0..(stream_count - 1)
    /\ DOMAIN stream_out = DOMAIN streams
    /\ \A id \in DOMAIN streams : streams[id].id = id
    /\ DOMAIN schedules = 0..(schedule_count - 1)
    /\ DOMAIN vesting_out = DOMAIN schedules
    /\ \A id \in DOMAIN schedules : schedules[id].id = id
    /\ (last.op = "create_stream") =>
          last.amount = stream_count - 1 /\ last.id = last.amount
    /\ (last.op = "create_batch_streams") =>
          last.id + last.amount = stream_count
    /\ (last.op = "create_schedule") =>
          last.amount = schedule_count - 1 /\ last.id = last.amount

C23_Step ==
    /\ stream_count' >= stream_count
    /\ schedule_count' >= schedule_count
    /\ DOMAIN streams' = DOMAIN streams \cup (stream_count..(stream_count' - 1))
    /\ DOMAIN schedules' = DOMAIN schedules \cup (schedule_count..(schedule_count' - 1))
    /\ \A id \in DOMAIN streams : streams'[id].id = streams[id].id
    /\ \A id \in DOMAIN schedules : schedules'[id].id = schedules[id].id

\* C23: the k-th successful creation of a contract gets id k: the stored ids
\* are exactly 0 .. count - 1, each record carries its own id, a creation
\* returns the next id and raises the count by the number of records it
\* stored, no step lowers a count or drops or renames an id, and the count
\* equals the number of records and the largest id + 1.
C23_Identifiers == [](C23_Ids) /\ [][C23_Step]_vars

\* C23 witness: a second create_stream, which was given id 1.
C23_Witness ==
    /\ last.op = "create_stream"
    /\ last.amount = 1
    /\ stream_count = 2
    /\ streams[1].id = 1


\* ---- C24
\* `list` holds exactly the ids of `ids`, each once, in ascending (creation) order.
C24_Lists(list, ids) ==
    /\ {list[k] : k \in 1..Len(list)} = ids
    /\ \A j \in 1..Len(list), k \in 1..Len(list) : j < k => list[j] < list[k]

C24_Exact ==
    \A a \in Addr :
        /\ C24_Lists(sender_streams[a], {id \in DOMAIN streams : streams[id].sender = a})
        /\ C24_Lists(recipient_streams[a],
                     {id \in DOMAIN streams : streams[id].recipient = a})
        /\ C24_Lists(grantor_schedules[a],
                     {id \in DOMAIN schedules : schedules[id].grantor = a})
        /\ C24_Lists(beneficiary_schedules[a],
                     {id \in DOMAIN schedules : schedules[id].beneficiary = a})

\* `old` is a prefix of `new`.
C24_Prefix(old, new) ==
    Len(old) <= Len(new) /\ \A k \in 1..Len(old) : new[k] = old[k]

C24_Step ==
    /\ \A a \in Addr :
          /\ C24_Prefix(sender_streams[a], sender_streams'[a])
          /\ C24_Prefix(recipient_streams[a], recipient_streams'[a])
          /\ C24_Prefix(grantor_schedules[a], grantor_schedules'[a])
          /\ C24_Prefix(beneficiary_schedules[a], beneficiary_schedules'[a])
    /\ (stream_count' = stream_count) =>
          UNCHANGED <<sender_streams, recipient_streams>>
    /\ (schedule_count' = schedule_count) =>
          UNCHANGED <<grantor_schedules, beneficiary_schedules>>

\* C24: for every account the by-sender / by-grantor list and the
\* by-recipient / by-beneficiary list hold exactly the ids of the records
\* created with the account in that role, each once, in creation order; the
\* lists only grow at their end, and only in a step that creates a record.
C24_IndexLists == [](C24_Exact) /\ [][C24_Step]_vars

\* C24 witness: an account that sent two streams, the first cancelled since
\* and the second just claimed from.
C24_Witness ==
    \E a \in Addr :
        /\ sender_streams[a] = <<0, 1>>
        /\ streams[0].status = "Cancelled"
        /\ streams[1].claimed_amount > 0
        /\ last.op = "stream_claim"


\* ---- C25
\* C25 as stated: every error return comes before the first write or
\* transfer of the call.  For create_batch_streams: a batch that fails has
\* stored and transferred nothing when it returns.  (For the other six calls see
\* C25_SingleRecord.)
C25_ValidationFirst ==
    stream_has_admin =>
        \A sender \in Addr, entries \in C22_Batches :
            (create_batch_streams_result(sender, entries) # "Ok") =>
               batch_written(sender, entries, 1, balance[sender]) = 0

\* The entries create_stream and a batch are tried with: to either address,
\* a valid entry and one that fails each check (total_amount 0, or more than
\* any balance; end_time = start_time; a start in the past).
C25_Entries ==
    {[recipient |-> r, total_amount |-> 1, start_time |-> now, end_time |-> now + 1] : r \in Addr}
    \cup {[recipient |-> r, total_amount |-> a, start_time |-> now, end_time |-> now + 1] : r \in Addr, a \in {0, InitBalance * Cardinality(Addr) + 1}}
    \cup {[recipient |-> r, total_amount |-> 1, start_time |-> now, end_time |-> now] : r \in Addr}
    \cup {[recipient |-> r, total_amount |-> 1, start_time |-> t, end_time |-> now + 1] : r \in Addr, t \in {u \in Times : u = now - 1}}

\* The batches tried: as many entries as ids are free.
C25_Batches == UNION {[1..n -> C25_Entries] : n \in 1..(Cardinality(StreamIds) - stream_count)}

\* The writes and transfers among `issued` with the given name.
C25_Issued(issued, name) == Cardinality({k \in 1..Len(issued) : issued[k] = name})

\* The steps of a single-record call give the result the call returns, and
\* an error is returned before any write or transfer is issued.
C25_ChecksFirst(outcome, result) ==
    /\ outcome.result = result
    /\ result # "Ok" => outcome.issued = <<>>

\* Every error return of create_stream, stream claim, cancel_stream,
\* create_schedule, vesting claim and revoke comes before the call's first
\* write or transfer.
C25_SingleRecord ==
    /\ \A a \in Addr, id \in StreamIds :
          /\ C25_ChecksFirst(outcome_of(stream_claim_steps(a, id)), stream_claim_result(a, id))
          /\ C25_ChecksFirst(outcome_of(cancel_stream_steps(a, id)), cancel_stream_result(a, id))
    /\ \A a \in Addr, id \in ScheduleIds :
          /\ C25_ChecksFirst(outcome_of(vesting_claim_steps(a, id)), vesting_claim_result(a, id))
          /\ C25_ChecksFirst(outcome_of(revoke_steps(a, id)), revoke_result(a, id))
    /\ \A sender \in Addr, entry \in C25_Entries :
          C25_ChecksFirst(outcome_of(create_stream_steps(sender, entry.recipient, entry.total_amount, entry.start_time, entry.end_time)),
                          create_stream_result(sender, entry.recipient, entry.total_amount, entry.start_time, entry.end_time))
    /\ \A total_amount \in {0, 1}, cliff_duration \in {0, 1}, cliff_amount \in {-1, 0, 2}, total_duration \in {0, 1, 2} :
          C25_ChecksFirst(outcome_of(create_schedule_steps("a1", "a2", total_amount, now, cliff_duration, cliff_amount, total_duration, TRUE)),
                          create_schedule_result("a1", "a2", total_amount, now, cliff_duration, cliff_amount, total_duration, TRUE))

\* create_batch_streams returns the error of its first failing entry after
\* the transfer, the record and the two index pushes of each entry before
\* it, and before the count is written.
C25_Batch ==
    stream_has_admin =>
        \A sender \in Addr, entries \in C25_Batches :
            LET outcome == outcome_of(create_batch_streams_steps(sender, entries))
                written == batch_written(sender, entries, 1, balance[sender])
            IN  /\ outcome.result = create_batch_streams_result(sender, entries)
                /\ C25_Issued(outcome.issued, "transfer") = written
                /\ C25_Issued(outcome.issued, "set_stream") = written
                /\ outcome.result # "Ok" =>
                      /\ written < Len(entries)
                      /\ Len(outcome.issued) = 4 * written
                      /\ C25_Issued(outcome.issued, "set_stream_count") = 0

\* A step that changes anything is not a call that returns an error.
C25_Step ==
    \/ UNCHANGED vars
    \/ /\ \A a \in Addr, id \in StreamIds :
             /\ ~(stream_claim_result(a, id) # "Ok" /\ stream_claim(a, id))
             /\ ~(cancel_stream_result(a, id) # "Ok" /\ cancel_stream(a, id))
       /\ \A a \in Addr, id \in ScheduleIds :
             /\ ~(vesting_claim_result(a, id) # "Ok" /\ vesting_claim(a, id))
             /\ ~(revoke_result(a, id) # "Ok" /\ revoke(a, id))
       /\ (stream_has_admin /\ stream_count < Cardinality(StreamIds)) =>
             \A sender \in Addr, entries \in C22_Batches :
                /\ ~(create_batch_streams_result(sender, entries) # "Ok"
                        /\ create_batch_streams(sender, entries))
                /\ ~(create_stream_result(sender, entries[1].recipient,
                            entries[1].total_amount, entries[1].start_time,
                            entries[1].end_time) # "Ok"
                        /\ create_stream(sender, entries[1].recipient,
                            entries[1].total_amount, entries[1].start_time,
                            entries[1].end_time))
       /\ (vesting_has_admin /\ schedule_count < Cardinality(ScheduleIds)) =>
             \A a \in Addr, total_amount \in {0, 1}, total_duration \in {0, 1} :
                ~(create_schedule_result(a, a, total_amount, now, 0, 0,
                                         total_duration, TRUE) # "Ok"
                     /\ create_schedule(a, a, total_amount, now, 0, 0,
                                        total_duration, TRUE))

\* C25, amended: a call that returns an error leaves all balances, records,
\* counters and index lists as they were.  In the six single-record calls
\* every error return comes before the first write or transfer; in
\* create_batch_streams the error return of a later entry comes after the
\* transfers and writes made for the entries before it, which the host rolls
\* back.
C25_FailureAtomicity == [](C25_SingleRecord /\ C25_Batch) /\ [][C25_Step]_vars

\* C25 witness: after the clock has advanced, a create_stream that fails on
\* its start time before writing anything, and a batch that fails at its
\* second entry after the loop has transferred and stored its first.
C25_Witness ==
    /\ stream_has_admin
    /\ now > 0
    /\ \E sender \in Addr, recipient \in Addr :
          /\ outcome_of(create_stream_steps(sender, recipient, 1, now - 1, now + 1)).result = "InvalidStartTime"
          /\ outcome_of(create_stream_steps(sender, recipient, 1, now - 1, now + 1)).issued = <<>>
    /\ \E sender \in Addr, entries \in C25_Batches :
          /\ Len(entries) = 2
          /\ create_batch_streams_result(sender, entries) # "Ok"
          /\ batch_written(sender, entries, 1, balance[sender]) = 1
          /\ outcome_of(create_batch_streams_steps(sender, entries)).issued = <<"transfer", "set_stream", "add_sender_stream", "add_recipient_stream">>


\* ---- C26
\* A step that is a claim or cancel on stream A, or a claim or revoke on
\* schedule A, leaves every other record B as it was, with its payouts, its
\* claimable amount and the answer any call on B would get; the balances
\* move by A's payout only.
C26_Step ==
    /\ (last'.op \in {"stream_claim", "cancel_stream"} /\ ~(UNCHANGED vars)) =>
          LET A == last'.id
          IN  /\ \A B \in DOMAIN streams \ {A} :
                    /\ streams'[B] = streams[B]
                    /\ stream_out'[B] = stream_out[B]
                    /\ get_claimable(B)' = get_claimable(B)
                    /\ cancel_settlement(now, streams[B])' = cancel_settlement(now, streams[B])
                    /\ \A c \in Addr :
                          /\ stream_claim_result(c, B)' = stream_claim_result(c, B)
                          /\ cancel_stream_result(c, B)' = cancel_stream_result(c, B)
              /\ \A acct \in Addr :
                    balance'[acct] - balance[acct] =
                       (IF acct = streams[A].recipient
                           THEN stream_out'[A].to_recipient - stream_out[A].to_recipient
                           ELSE 0)
                       + (IF acct = streams[A].sender
                             THEN stream_out'[A].to_sender - stream_out[A].to_sender
                             ELSE 0)
    /\ (last'.op \in {"vesting_claim", "revoke"} /\ ~(UNCHANGED vars)) =>
          LET A == last'.id
          IN  \A B \in DOMAIN schedules \ {A} :
                 /\ schedules'[B] = schedules[B]
                 /\ vesting_out'[B] = vesting_out[B]
                 /\ get_progress(B)' = get_progress(B)
                 /\ \A c \in Addr :
                       /\ vesting_claim_result(c, B)' = vesting_claim_result(c, B)
                       /\ revoke_result(c, B)' = revoke_result(c, B)

\* C26: a claim, cancel or revoke on one schedule leaves the record, the
\* claimable amount and the payouts of every other schedule unchanged, and
\* does not change what any operation on another schedule returns or does;
\* so two operations on different schedules made at the same ledger time give
\* the same records and balances in either order.
C26_Independence == [][C26_Step]_vars

\* C26 witness: two schedules, one revoked and the other claimed from at the
\* same ledger time.
C26_Witness ==
    /\ DOMAIN schedules = PairIds
    /\ \E A \in PairIds, B \in PairIds :
          /\ A # B
          /\ schedules[A].status = "Revoked"
          /\ schedules[B].claimed_amount > 0
          /\ last.op = "vesting_claim" /\ last.id = B

C27_QueryOps == {"get_stream", "get_claimable", "get_streams_by_sender", "get_streams_by_recipient", "get_schedule", "get_progress", "get_schedules_by_grantor", "get_schedules_by_beneficiary"}

\* What the query recorded in `call` returns from a storage and a clock.
C27_Answer(call, t, strs, by_sender, by_recipient, scheds, by_grantor, by_beneficiary) ==
    CASE call.op = "get_stream" -> strs[call.id].claimed_amount
      [] call.op = "get_claimable" -> calculate_claimable(t, strs[call.id])
      [] call.op = "get_streams_by_sender" -> Len(by_sender[call.caller])
      [] call.op = "get_streams_by_recipient" -> Len(by_recipient[call.caller])
      [] call.op = "get_schedule" -> scheds[call.id].claimed_amount
      [] call.op = "get_progress" -> Max0(calculate_vested(t, scheds[call.id]) - scheds[call.id].claimed_amount)
      [] call.op = "get_schedules_by_grantor" -> Len(by_grantor[call.caller])
      [] call.op = "get_schedules_by_beneficiary" -> Len(by_beneficiary[call.caller])

\* The progress of every stored schedule reports its own fields, and
\* claimable_amount = max(0, vested_amount - claimed_amount).
C27_Progress ==
    \A id \in DOMAIN schedules :
        LET p == get_progress(id)
        IN  /\ p.total_amount = schedules[id].total_amount
            /\ p.claimed_amount = schedules[id].claimed_amount
            /\ p.status = schedules[id].status
            /\ p.vested_amount = calculate_vested(now, schedules[id])
            /\ p.claimable_amount = Max0(p.vested_amount - p.claimed_amount)
            /\ p.claimable_amount >= 0

\* A query step writes nothing, and the same query asked again right after it
\* returns what it returned.
C27_Step ==
    (last' # last /\ last'.op \in C27_QueryOps) =>
        /\ UNCHANGED <<now, stream_vars, vesting_vars, treasury_vars, governance_vars>>
        /\ last'.amount = C27_Answer(last', now, streams, sender_streams, recipient_streams, schedules, grantor_schedules, beneficiary_schedules)
        /\ last'.amount = C27_Answer(last', now', streams', sender_streams', recipient_streams', schedules', grantor_schedules', beneficiary_schedules')
        /\ \A id \in DOMAIN streams : get_claimable(id)' = get_claimable(id)
        /\ \A id \in DOMAIN schedules : get_progress(id)' = get_progress(id)

\* C27: get_stream, get_claimable, get_schedule, get_progress and the list
\* queries change no stored state, balance or clock; asked twice with no state
\* change and the same ledger time they return the same result; and
\* get_progress reports claimable_amount = max(0, vested_amount - claimed_amount).
C27_QueriesPure == [](C27_Progress) /\ [][C27_Step]_vars

\* A get_progress answer with something claimable, on a schedule that has
\* already been claimed from.
C27_Witness ==
    /\ last.op = "get_progress"
    /\ last.amount > 0
    /\ has_schedule(last.id)
    /\ schedules[last.id].claimed_amount > 0

\* ---- C29
\* C29: once the treasury is initialized, 1 <= threshold <= number of signers
\* in every state reached through initialize, add_signer, remove_signer and
\* update_threshold; initialize and update_threshold turn away a threshold of 0
\* or above the signer count with InvalidThreshold, and remove_signer is turned
\* away with InvalidThreshold when the signer count is already <= threshold.
C29_ThresholdInvariant ==
    /\ treasury_has_admin => (1 <= threshold /\ threshold <= Len(signers))
    /\ ~treasury_has_admin =>
          \A admin \in Admins, l \in SignerLists, t \in Thresholds :
              (t = 0 \/ t > Len(l)) => treasury_initialize_result(admin, l, t) = "InvalidThreshold"
    /\ treasury_has_admin =>
          /\ \A t \in Thresholds :
                (t = 0 \/ t > Len(signers)) => update_threshold_result(treasury_admin, t) = "InvalidThreshold"
          /\ \A s \in SignerAddr :
                Len(signers) <= threshold => remove_signer_result(treasury_admin, s) = "InvalidThreshold"

\* ---- C30
\* The approvals of every stored withdrawal are distinct addresses, and
\* execute_withdrawal on a stored withdrawal whose status is not Approved
\* returns ProposalNotApproved.
C30_Inv ==
    \A id \in DOMAIN withdrawals :
        LET request == withdrawals[id]
        IN  /\ \A i \in 1..Len(request.approvals), j \in 1..Len(request.approvals) :
                  i # j => request.approvals[i] # request.approvals[j]
            /\ (treasury_has_admin /\ request.status # "Approved") =>
                  \A executor \in SignerAddr : execute_withdrawal_result(executor, id) = "ProposalNotApproved"
            /\ request.status \in {"Approved", "Executed"} => Len(request.approvals) >= 1

\* A withdrawal becomes Approved only in an approve_withdrawal call on a
\* Pending request, with at least `threshold` approvals after the call;
\* it becomes Executed only in an execute_withdrawal call on an Approved
\* request; and once Approved its approvals no longer change.
C30_Step ==
    UNCHANGED withdrawals \/
    \A id \in DOMAIN withdrawals' :
        LET after == withdrawals'[id]
        IN  /\ (after.status = "Approved" /\ (~has_withdrawal(id) \/ withdrawals[id].status # "Approved")) =>
                  /\ has_withdrawal(id)
                  /\ withdrawals[id].status = "Pending"
                  /\ \E signer \in SignerAddr :
                        /\ approve_withdrawal_result(signer, id) = "Ok"
                        /\ approve_withdrawal(signer, id)
                        /\ after.approvals = Append(withdrawals[id].approvals, signer)
                  /\ threshold' = threshold
                  /\ Len(after.approvals) >= threshold
            /\ (after.status = "Executed" /\ (~has_withdrawal(id) \/ withdrawals[id].status # "Executed")) =>
                  /\ has_withdrawal(id)
                  /\ withdrawals[id].status = "Approved"
                  /\ \E executor \in SignerAddr :
                        /\ execute_withdrawal_result(executor, id) = "Ok"
                        /\ execute_withdrawal(executor, id)
            /\ (has_withdrawal(id) /\ withdrawals[id].status \in {"Approved", "Executed"}) =>
                  /\ after.approvals = withdrawals[id].approvals
                  /\ after.status \in {"Approved", "Executed"}

\* C30: execute_withdrawal fails with ProposalNotApproved unless the status is
\* Approved; a withdrawal becomes Approved only inside an approve_withdrawal
\* call at which its number of distinct approvals is >= the threshold in force
\* at that moment; so no withdrawal reaches Executed with fewer approvals than
\* that threshold.
C30_ExecutedOnlyApproved == [](C30_Inv) /\ [][C30_Step]_vars

\* A withdrawal that was paid out after three approvals: the second approval
\* left it Pending under a threshold of three.
C30_Witness ==
    \E id \in DOMAIN withdrawals :
        /\ withdrawals[id].status = "Executed"
        /\ Len(withdrawals[id].approvals) = 3
        /\ treasury_received[withdrawals[id].recipient] > 0

\* ---- C28
C28_Callers == Admins \cup SignerAddr

\* Once a contract has an admin, initialize returns AlreadyInitialized for
\* every caller and input; while it has none, it stores nothing and every
\* mutating entry point returns NotInitialized.
C28_Inv ==
    /\ stream_has_admin => \A admin \in C28_Callers : stream_initialize_result(admin) = "AlreadyInitialized"
    /\ vesting_has_admin => \A admin \in C28_Callers : vesting_initialize_result(admin) = "AlreadyInitialized"
    /\ treasury_has_admin =>
          \A admin \in C28_Callers, l \in SignerLists, t \in Thresholds :
              treasury_initialize_result(admin, l, t) = "AlreadyInitialized"
    /\ ~stream_has_admin =>
          /\ stream_count = 0 /\ streams = <<>>
          /\ \A sender \in Addr, recipient \in Addr, total_amount \in Amounts, start_time \in Times, end_time \in Times :
                /\ create_stream_result(sender, recipient, total_amount, start_time, end_time) = "NotInitialized"
                /\ create_batch_streams_result(sender, <<[recipient |-> recipient, total_amount |-> total_amount, start_time |-> start_time, end_time |-> end_time]>>) = "NotInitialized"
          /\ \A caller \in Addr, stream_id \in StreamIds :
                /\ stream_claim_result(caller, stream_id) = "NotInitialized"
                /\ cancel_stream_result(caller, stream_id) = "NotInitialized"
    /\ ~vesting_has_admin =>
          /\ schedule_count = 0 /\ schedules = <<>>
          /\ \A grantor \in Addr, beneficiary \in Addr, total_amount \in Amounts, total_duration \in Times, revocable \in BOOLEAN :
                create_schedule_result(grantor, beneficiary, total_amount, now, 0, 0, total_duration, revocable) = "NotInitialized"
          /\ \A caller \in Addr, schedule_id \in ScheduleIds :
                /\ vesting_claim_result(caller, schedule_id) = "NotInitialized"
                /\ revoke_result(caller, schedule_id) = "NotInitialized"
    /\ ~treasury_has_admin =>
          /\ proposal_count = 0 /\ withdrawals = <<>> /\ signers = <<>> /\ threshold = 0
          /\ \A caller \in C28_Callers, other \in SignerAddr, amount \in Amounts, id \in ProposalIds, t \in Thresholds :
                /\ deposit_result(caller, amount) = "NotInitialized"
                /\ create_withdrawal_result(caller, other, amount) = "NotInitialized"
                /\ approve_withdrawal_result(caller, id) = "NotInitialized"
                /\ execute_withdrawal_result(caller, id) = "NotInitialized"
                /\ add_signer_result(caller, other) = "NotInitialized"
                /\ remove_signer_result(caller, other) = "NotInitialized"
                /\ update_threshold_result(caller, t) = "NotInitialized"

\* The admin of a contract is written once and its counter is never set back;
\* and while a contract has no admin, the only step that changes its state is
\* a successful initialize.
C28_Step ==
    /\ stream_has_admin => (stream_admin' = stream_admin /\ stream_count' >= stream_count)
    /\ vesting_has_admin => (vesting_admin' = vesting_admin /\ schedule_count' >= schedule_count)
    /\ treasury_has_admin => (treasury_admin' = treasury_admin /\ proposal_count' >= proposal_count)
    /\ (~stream_has_admin /\ stream_vars' # stream_vars) =>
          \E admin \in Admins : stream_initialize_result(admin) = "Ok" /\ stream_initialize(admin)
    /\ (~vesting_has_admin /\ vesting_vars' # vesting_vars) =>
          \E admin \in Admins : vesting_initialize_result(admin) = "Ok" /\ vesting_initialize(admin)
    /\ (~treasury_has_admin /\ <<treasury_admin, signers, threshold, proposal_count, withdrawals>>' # <<treasury_admin, signers, threshold, proposal_count, withdrawals>>) =>
          \E admin \in Admins, l \in SignerLists, t \in Thresholds :
              treasury_initialize_result(admin, l, t) = "Ok" /\ treasury_initialize(admin, l, t)

\* C28: initialization happens at most once per contract: a second initialize
\* fails with AlreadyInitialized and leaves the admin, counters and
\* configuration unchanged, and before the first initialize every mutating
\* entry point (create, claim, cancel / revoke) fails with NotInitialized
\* without changing state.
C28_InitializeOnce == [](C28_Inv) /\ [][C28_Step]_vars

\* An initialized payroll_stream contract that has created its streams: the
\* state a repeated initialize would set back.
C28_Witness ==
    /\ stream_has_admin
    /\ stream_count = Cardinality(StreamIds)
    /\ \A admin \in C28_Callers : stream_initialize_result(admin) = "AlreadyInitialized"

\* ---- C31
\* C31: in every reachable treasury state, a withdrawal whose number of
\* approvals is >= the current threshold does not have status Pending (a
\* withdrawal just created under threshold 1 and withdrawals pending when
\* update_threshold lowers the threshold included).
C31_ApprovedOnceThresholdMet ==
    treasury_has_admin =>
        \A id \in DOMAIN withdrawals :
            Len(withdrawals[id].approvals) >= threshold => withdrawals[id].status # "Pending"

\* ---- C32
\* Why approve_withdrawal(who, id) on a stored request is turned away, by the
\* claim's three cases in the order the code checks them.
C32_Refusal(who, id) ==
    IF ~is_signer(signers, who) THEN "NotASigner"
    ELSE IF withdrawals[id].status # "Pending" THEN "ProposalNotPending"
    ELSE IF \E i \in 1..Len(withdrawals[id].approvals) : withdrawals[id].approvals[i] = who THEN "AlreadyApproved"
    ELSE "Ok"

\* No address is twice among the approvals of a request, and a call in one of
\* the three cases returns that case's error.
C32_Inv ==
    treasury_has_admin =>
        \A id \in DOMAIN withdrawals :
            /\ \A i \in 1..Len(withdrawals[id].approvals), j \in 1..Len(withdrawals[id].approvals) :
                  i # j => withdrawals[id].approvals[i] # withdrawals[id].approvals[j]
            /\ \A who \in SignerAddr : approve_withdrawal_result(who, id) = C32_Refusal(who, id)

\* The approvals of a request start as the proposer alone, a signer at that
\* moment, and grow only by one address that is a signer at that moment, is
\* not yet among them, on a Pending request; a call in one of the three cases
\* is no step that changes a request.
C32_Step ==
    UNCHANGED withdrawals \/
    /\ \A id \in DOMAIN withdrawals' :
          IF ~has_withdrawal(id)
          THEN /\ withdrawals'[id].approvals = <<withdrawals'[id].proposer>>
               /\ is_signer(signers, withdrawals'[id].proposer)
          ELSE \/ withdrawals'[id].approvals = withdrawals[id].approvals
               \/ \E who \in SignerAddr :
                     /\ withdrawals'[id].approvals = Append(withdrawals[id].approvals, who)
                     /\ C32_Refusal(who, id) = "Ok"
    /\ \A id \in DOMAIN withdrawals, who \in SignerAddr :
          C32_Refusal(who, id) # "Ok" => ~approve_withdrawal(who, id)

\* C32: a withdrawal's approvals never contain the same address twice and
\* contain only addresses that were signers when they approved (the proposer's
\* approval being recorded at creation); approve_withdrawal by an address
\* already in the list fails with AlreadyApproved, by a non-signer with
\* NotASigner, and on a non-Pending withdrawal with ProposalNotPending, each
\* leaving the request unchanged.
C32_ApprovalsDistinct == [](C32_Inv) /\ [][C32_Step]_vars

\* A Pending request with two approvals, whose second approver is turned away
\* with AlreadyApproved while a removed signer is turned away with NotASigner.
C32_Witness ==
    \E id \in DOMAIN withdrawals :
        /\ withdrawals[id].status = "Pending"
        /\ Len(withdrawals[id].approvals) = 2
        /\ approve_withdrawal_result(withdrawals[id].approvals[2], id) = "AlreadyApproved"
        /\ approve_withdrawal_result(withdrawals[id].approvals[1], id) = "NotASigner"

\* ---- C33
\* The amounts of the Executed requests with ids below n that name `a` as recipient.
RECURSIVE C33_Paid(_, _)
C33_Paid(a, n) ==
    IF n = 0 THEN 0
    ELSE C33_Paid(a, n - 1) +
         (IF withdrawals[n - 1].status = "Executed" /\ withdrawals[n - 1].recipient = a
          THEN withdrawals[n - 1].amount ELSE 0)

\* Every address has received exactly the amounts of the Executed requests
\* that name it; execute_withdrawal on an Executed request fails, and on an
\* Approved request with too small a balance returns InsufficientBalance.
C33_Inv ==
    /\ \A a \in SignerAddr : treasury_received[a] = C33_Paid(a, proposal_count)
    /\ treasury_balance >= 0
    /\ treasury_has_admin =>
          \A id \in DOMAIN withdrawals, executor \in SignerAddr :
              /\ withdrawals[id].status = "Executed" => execute_withdrawal_result(executor, id) = "ProposalNotApproved"
              /\ (withdrawals[id].status = "Approved" /\ treasury_balance < withdrawals[id].amount) =>
                    execute_withdrawal_result(executor, id) = "InsufficientBalance"
              /\ execute_withdrawal_result(executor, id) = "Ok" =>
                    (withdrawals[id].status = "Approved" /\ treasury_balance >= withdrawals[id].amount)

\* Tokens leave the treasury only in a step that turns one Approved request,
\* covered by the balance, into Executed and moves exactly its amount to its
\* recipient; an Executed request stays Executed.
C33_Step ==
    /\ \A id \in DOMAIN withdrawals : withdrawals[id].status = "Executed" => withdrawals'[id] = withdrawals[id]
    /\ (treasury_received' # treasury_received \/ treasury_balance' < treasury_balance
          \/ \E id \in DOMAIN withdrawals : withdrawals[id].status # "Executed" /\ withdrawals'[id].status = "Executed") =>
          \E id \in DOMAIN withdrawals :
              LET request == withdrawals[id]
              IN  /\ request.status = "Approved"
                  /\ treasury_balance >= request.amount
                  /\ treasury_balance' = treasury_balance - request.amount
                  /\ treasury_received' = [treasury_received EXCEPT ![request.recipient] = @ + request.amount]
                  /\ withdrawals' = [withdrawals EXCEPT ![id].status = "Executed"]
                  /\ \E executor \in SignerAddr : execute_withdrawal(executor, id)

\* C33: each treasury withdrawal pays out at most once: execute_withdrawal
\* succeeds only from status Approved with contract balance >= amount, then
\* transfers exactly amount to the recipient and sets status Executed, after
\* which every further execute_withdrawal on it fails; when the balance is
\* below amount it fails with InsufficientBalance, transfers nothing and
\* leaves the status Approved.
C33_PaidOnce == [](C33_Inv) /\ [][C33_Step]_vars

\* An Executed request whose amount the treasury, funded again, could pay a
\* second time.
C33_Witness ==
    \E id \in DOMAIN withdrawals :
        /\ withdrawals[id].status = "Executed"
        /\ treasury_received[withdrawals[id].recipient] = withdrawals[id].amount
        /\ treasury_balance >= withdrawals[id].amount

\* ---- C34
\* The number of vote records of a proposal with the given choice.
C34_Count(proposal, choice) == Cardinality({i \in 1..Len(proposal.votes) : proposal.votes[i].choice = choice})

\* Each voter is recorded at most once, the three tallies count the records
\* of their choice, and a vote by a recorded voter is turned away: with
\* AlreadyVoted when the voter is a member and the proposal is open.
C34_Inv ==
    \A id \in DOMAIN proposals :
        LET proposal == proposals[id]
        IN  /\ \A i \in 1..Len(proposal.votes), j \in 1..Len(proposal.votes) :
                  i # j => proposal.votes[i].voter # proposal.votes[j].voter
            /\ proposal.yes_votes = C34_Count(proposal, "Yes")
            /\ proposal.no_votes = C34_Count(proposal, "No")
            /\ proposal.abstain_votes = C34_Count(proposal, "Abstain")
            /\ proposal.yes_votes + proposal.no_votes + proposal.abstain_votes = Len(proposal.votes)
            /\ \A voter \in Addr, choice \in VoteChoices :
                  has_voted(proposal, voter) =>
                      /\ vote_result(voter, id, choice) # "Ok"
                      /\ (is_member(members, voter) /\ proposal.status = "Active" /\ now <= proposal.end_time) =>
                            vote_result(voter, id, choice) = "AlreadyVoted"

\* The vote records of a proposal start empty and grow only by one record of
\* an address that is a member at that moment and is not yet recorded, stamped
\* with the ledger time; the tallies change with the records only.
C34_Step ==
    UNCHANGED proposals \/
    \A id \in DOMAIN proposals' :
        IF ~has_proposal(id)
        THEN proposals'[id].votes = <<>>
        ELSE \/ /\ proposals'[id].votes = proposals[id].votes
                /\ proposals'[id].yes_votes = proposals[id].yes_votes
                /\ proposals'[id].no_votes = proposals[id].no_votes
                /\ proposals'[id].abstain_votes = proposals[id].abstain_votes
             \/ \E voter \in Addr, choice \in VoteChoices :
                   /\ proposals'[id].votes = Append(proposals[id].votes, [voter |-> voter, choice |-> choice, timestamp |-> now])
                   /\ is_member(members, voter)
                   /\ ~has_voted(proposals[id], voter)

\* C34: each DAO member can vote only once per proposal: a proposal's vote
\* records contain each voter at most once, every recorded voter was a member
\* when voting, and yes_votes + no_votes + abstain_votes equals the number of
\* vote records; a repeated vote fails with AlreadyVoted and changes nothing.
C34_VoteOnce == [](C34_Inv) /\ [][C34_Step]_vars

\* An open proposal on which both members have voted, so that either would
\* be voting a second time.
C34_Witness ==
    \E id \in DOMAIN proposals :
        /\ proposals[id].status = "Active"
        /\ now <= proposals[id].end_time
        /\ Len(proposals[id].votes) = 2
        /\ \A voter \in Addr : vote_result(voter, id, "Yes") = "AlreadyVoted"

\* ---- C35
\* The quorum of the documentation: the votes cast are at least
\* quorum_percentage percent of the members.
C35_QuorumReached(proposal) == Len(proposal.votes) * 100 >= quorum_percentage * Len(members)

C35_Step ==
    UNCHANGED proposals \/
    \A id \in DOMAIN proposals :
        (proposals[id].status = "Active" /\ proposals'[id].status \in {"Approved", "Rejected"}) =>
            /\ finalize_result("admin", id) = proposals'[id].status
            /\ proposals'[id].status = "Approved" <=>
                  (C35_QuorumReached(proposals[id]) /\ proposals[id].yes_votes > proposals[id].no_votes)

\* C35: finalize returns Approved only if the number of votes cast is at
\* least quorum_percentage percent of the member count
\* (votes * 100 >= quorum_percentage * members) and yes_votes > no_votes;
\* otherwise it returns Rejected; the stored status equals the returned one.
C35_QuorumAndMajority == [][C35_Step]_vars

\* ---- C36
C36_Step ==
    UNCHANGED proposals \/
    \A id \in DOMAIN proposals :
        (/\ proposals[id].status = "Active"
         /\ now > proposals[id].end_time + get_grace_period
         /\ proposals'[id].status \in {"Approved", "Rejected"}) =>
            proposals'[id].status = "Rejected"

\* C36: a proposal still unfinalized when the ledger time exceeds
\* end_time + grace_period is auto-rejected: finalize called after that
\* instant returns and stores Rejected whatever the recorded votes are.
C36_RejectedAfterGrace == [][C36_Step]_vars

\* ---- C37
\* The tallies and vote records of a proposal.
C37_Tally(proposal) == <<proposal.yes_votes, proposal.no_votes, proposal.abstain_votes, proposal.votes>>

\* Every vote was cast no later than end_time, and a finalized proposal is
\* past its end_time.
C37_Inv ==
    \A id \in DOMAIN proposals :
        /\ \A i \in 1..Len(proposals[id].votes) : proposals[id].votes[i].timestamp <= proposals[id].end_time
        /\ proposals[id].status \in {"Approved", "Rejected", "Executed"} => now > proposals[id].end_time

\* A step changes the tally only of an Active proposal within its window,
\* finalizes only an Active proposal past its window, and leaves the tally
\* of a proposal that is no longer Active alone.
C37_Step ==
    UNCHANGED proposals \/
    \A id \in DOMAIN proposals :
        /\ C37_Tally(proposals'[id]) # C37_Tally(proposals[id]) =>
              (proposals[id].status = "Active" /\ now <= proposals[id].end_time)
        /\ (proposals[id].status = "Active" /\ proposals'[id].status \in {"Approved", "Rejected"}) =>
              now > proposals[id].end_time
        /\ proposals[id].status # "Active" =>
              (C37_Tally(proposals'[id]) = C37_Tally(proposals[id]) /\ proposals'[id].status # "Active")

\* C37: a vote is accepted only while the proposal is Active and the ledger
\* time is <= end_time, and finalize only while it is Active and the ledger
\* time is > end_time; so no vote is recorded on a proposal after it has been
\* finalized or cancelled, and the tallies finalize used never change.
C37_VotingWindow == [](C37_Inv) /\ [][C37_Step]_vars

\* A finalized proposal with a recorded vote, on which the other member,
\* who has not voted, is turned away.
C37_Witness ==
    \E id \in DOMAIN proposals :
        /\ proposals[id].status \in {"Approved", "Rejected"}
        /\ Len(proposals[id].votes) = 1
        /\ \E voter \in Addr :
              /\ is_member(members, voter)
              /\ ~has_voted(proposals[id], voter)
              /\ vote_result(voter, id, "No") = "VotingNotActive"

\* ---- C38
\* The status changes of the proposal lifecycle.
C38_Transitions == {<<"Active", "Approved">>, <<"Active", "Rejected">>, <<"Active", "Cancelled">>, <<"Approved", "Executed">>}

\* The admin's execute of a proposal that is not Approved fails with
\* ProposalNotApproved, nobody else can execute, and only the proposer can
\* cancel.
C38_Inv ==
    \A id \in DOMAIN proposals :
        /\ proposals[id].status # "Approved" => execute_result(governance_admin, id) = "ProposalNotApproved"
        /\ \A caller \in GovernanceCallers :
              /\ caller # governance_admin => execute_result(caller, id) = "Unauthorized"
              /\ caller # proposals[id].proposer => cancel_proposal_result(caller, id) = "Unauthorized"

\* A proposal starts Active, and a step changes a status only along one of
\* the lifecycle's transitions, for which the operation's call is accepted;
\* an Executed proposal stays Executed.
C38_Step ==
    UNCHANGED proposals \/
    \A id \in DOMAIN proposals' :
        IF ~has_proposal(id)
        THEN proposals'[id].status = "Active"
        ELSE \/ proposals'[id].status = proposals[id].status
             \/ /\ <<proposals[id].status, proposals'[id].status>> \in C38_Transitions
                /\ proposals'[id].status \in {"Approved", "Rejected"} => now > proposals[id].end_time
                /\ proposals'[id].status = "Cancelled" => cancel_proposal_result(proposals[id].proposer, id) = "Ok"
                /\ proposals'[id].status = "Executed" => execute_result(governance_admin, id) = "Ok"

\* C38: a proposal's status changes only by Active -> Approved or
\* Active -> Rejected (finalize), Active -> Cancelled (cancel_proposal by its
\* proposer) and Approved -> Executed (execute by the admin); execute on any
\* other status fails with ProposalNotApproved, so a proposal is executed at
\* most once and never without having been approved.
C38_Lifecycle == [](C38_Inv) /\ [][C38_Step]_vars

\* An executed proposal, which the admin tries to execute again.
C38_Witness ==
    \E id \in DOMAIN proposals :
        /\ proposals[id].status = "Executed"
        /\ execute_result(governance_admin, id) = "ProposalNotApproved"

\* ---- C39
\* C39: for every stream accepted by create_stream (any total_amount in
\* 1..i128::MAX and any start_time < end_time) the product
\* total_amount * (now - start_time) of calculate_claimable fits in an i128
\* at every ledger time, so that get_claimable, claim and cancel_stream never
\* overflow.
C39_ProductFits == \A id \in DOMAIN streams : ~mul_overflows(now, streams[id])

====
